---- MODULE Spec2Model ----
(***************************************************************************)
(* Study Lenses: the in-memory virtual filesystem (fs.js, github.js), the  *)
(* loaders that install it (RepoLoader.jsx) and the hierarchical           *)
(* lenses.json configuration cascade.                                      *)
(*                                                                         *)
(* JavaScript strings are sequences of one-character strings, so that      *)
(* split, join, slice, startsWith and localeCompare are computed as the    *)
(* code computes them.  The object graph of a tree is a heap: a sequence   *)
(* of node records whose children fields hold heap indices; index 1 is    *)
(* the root object.  The empty heap stands for null.                       *)
(***************************************************************************)
EXTENDS Integers, Sequences, FiniteSets, TLC

VARIABLES
    virtualFS,    \* fs.js `let virtualFS`: the heap of the current tree
    githubData,   \* the flat listing answered by the git-tree API
    filterPath,   \* repoInfo.path of the URL being loaded
    pc,           \* position of the operation last performed
    lookup,       \* [path, node]: argument and result of the last getFile
    configTree,   \* the tree handed to loadConfigFromVirtualFS
    configPath,   \* the file path handed to loadConfigFromVirtualFS
    config,       \* the effective configuration it returned
    response,     \* the body of the static snapshot loadFS is awaiting
    inflight,     \* the file nodes whose content fetch is on the network
    fetched,      \* the file nodes a content fetch completed for, with its last outcome
    pending,      \* the editor update a debounce timer holds
    request,      \* the handler that last resolved a file path, and the path
    currentFile,  \* AppContext currentFile: the selected file node
    appError,     \* AppContent error: the message of the failure screen
    randomFile,   \* argument and result of the last getRandomFile
    fileHistory,  \* AppContext fileHistory: the files selected, latest first
    opCount,      \* how many operations on files ran on the current tree
    expandedDirs, \* FileBrowser expandedDirs: the paths of the open directories
    beforeUpdate, \* history: per node under edit, its content before the first
                  \* updateFileContent and after the last one
    lastSelected, \* history: the file last handed to setCurrentFile
    currentSession,   \* useLeitnerBox currentSession: the cards of the session
    currentCardIndex, \* useLeitnerBox currentCardIndex, counted from 0
    isSessionActive,  \* useLeitnerBox isSessionActive
    recorded,     \* the calls of manager.recordResponse: [card, correct]
    call,         \* the last call of the hook: its name, argument and result
    userResponse, \* FlashcardLens userResponse: the answer shown as given
    answers,      \* history: the answers the learner gave, [card, correct]
    clock,        \* the time, in ticks
    timers,       \* the timeouts that are set and neither ran nor were cleared
    timeoutRef,   \* useDebounce timeoutRef.current
    nextTimerId,  \* the id the next setTimeout returns
    bursts        \* history: the bursts of calls of the debounced function,
                  \* the last call of each and the runs of the callback since

\* The state the loaders and getFile leave alone.
appState == <<response, inflight, fetched, pending, request, currentFile, appError, randomFile>>

\* The state of useLeitnerBox, of FlashcardLens and of useDebounce.
leitnerState == <<currentSession, currentCardIndex, isSessionActive, recorded, call>>

lensState == <<userResponse, answers>>

debounceState == <<clock, timers, timeoutRef, nextTimerId, bursts>>

\* The state of the components that hold no file, and the histories the
\* properties read.
widgetState == <<expandedDirs, beforeUpdate, lastSelected, leitnerState, lensState,
                 debounceState>>

\* The state of the components around the tree.
uiState == <<fileHistory, opCount, widgetState>>

\* The tree, its loaders and the lookups.
treeState == <<virtualFS, githubData, filterPath, pc, lookup, configTree, configPath, config>>

vars == <<virtualFS, githubData, filterPath, pc, lookup, configTree, configPath, config, appState,
          uiState>>

-----------------------------------------------------------------------------
(* JavaScript strings *)

UNDEF == <<"undefined">>
NULL == <<>>
NoChildren == <<0>>
NoNode == 0

\* No timer is set, no file is selected, no path was requested, getRandomFile
\* was not called, no failure screen is shown.
NoEdit == [timer |-> FALSE]
NoFile == [type |-> "none"]
NoRequest == [handler |-> "none", filePath |-> <<>>]
NoRandom == [dir |-> [kind |-> "none", at |-> NoNode], fs |-> NULL, node |-> NoNode, plain |-> NoNode]
NoError == ""
NoResponse == [json |-> FALSE, value |-> NULL]

\* node.key, undefined when the object has no such property.
field(node, key) == IF key \in DOMAIN node THEN node[key] ELSE UNDEF

\* a || b on strings: undefined and '' are falsy.
orElse(a, b) == IF a \notin {UNDEF, <<>>} THEN a ELSE b

\* The values true, false and null of JavaScript.
JsTrue == <<"true">>
JsFalse == <<"false">>
JsNull == <<"null">>

\* No session: useState(null) of currentSession.
NoSession == JsNull
NoCall == [name |-> "none", arg |-> JsNull, returned |-> JsNull]

\* No timeout: useRef(null) of timeoutRef.
NoTimer == 0

\* useState([]) of fileHistory, useState(new Set(['/'])) of expandedDirs;
\* nothing ran yet.
UIInit ==
    /\ fileHistory = <<>>
    /\ opCount = 0
    /\ expandedDirs = {<<"/">>}
    /\ beforeUpdate = <<>>
    /\ lastSelected = NoFile
    /\ currentSession = NoSession
    /\ currentCardIndex = 0
    /\ isSessionActive = FALSE
    /\ recorded = <<>>
    /\ call = NoCall
    /\ userResponse = JsNull
    /\ answers = <<>>
    /\ clock = 0
    /\ timers = {}
    /\ timeoutRef = NoTimer
    /\ nextTimerId = 1
    /\ bursts = <<>>

OthersInit ==
    /\ response = NoResponse
    /\ inflight = <<>>
    /\ fetched = {}
    /\ pending = NoEdit
    /\ request = NoRequest
    /\ currentFile = NoFile
    /\ appError = NoError
    /\ randomFile = NoRandom
    /\ UIInit

LowerChars == <<"a","b","c","d","e","f","g","h","i","j","k","l","m",
                "n","o","p","q","r","s","t","u","v","w","x","y","z">>
UpperChars == <<"A","B","C","D","E","F","G","H","I","J","K","L","M",
                "N","O","P","Q","R","S","T","U","V","W","X","Y","Z">>

IsUpper(c) == \E i \in 1..Len(UpperChars) : UpperChars[i] = c

CharToLower(c) ==
    IF IsUpper(c)
    THEN LowerChars[CHOOSE i \in 1..Len(UpperChars) : UpperChars[i] = c]
    ELSE c

toLowerCase(s) == [i \in 1..Len(s) |-> CharToLower(s[i])]

startsWith(s, p) == Len(p) <= Len(s) /\ SubSeq(s, 1, Len(p)) = p

endsWith(s, p) == Len(p) <= Len(s) /\ SubSeq(s, Len(s) - Len(p) + 1, Len(s)) = p

slice(s, n) == SubSeq(s, n + 1, Len(s))

\* s.replace(/^\//, '')
stripLeadingSlash(s) == IF startsWith(s, <<"/">>) THEN slice(s, 1) ELSE s

RECURSIVE split(_, _)
split(s, sep) ==
    IF \A i \in 1..Len(s) : s[i] # sep
    THEN <<s>>
    ELSE LET i == CHOOSE k \in 1..Len(s) :
                     s[k] = sep /\ \A j \in 1..(k - 1) : s[j] # sep
         IN  <<SubSeq(s, 1, i - 1)>> \o split(SubSeq(s, i + 1, Len(s)), sep)

RECURSIVE join(_, _)
join(parts, sep) ==
    IF parts = <<>> THEN <<>>
    ELSE IF Len(parts) = 1 THEN parts[1]
    ELSE parts[1] \o <<sep>> \o join(Tail(parts), sep)

\* parts.filter((p) => p)
RECURSIVE filterNonEmpty(_)
filterNonEmpty(parts) ==
    IF parts = <<>> THEN <<>>
    ELSE IF Head(parts) = <<>> THEN filterNonEmpty(Tail(parts))
    ELSE <<Head(parts)>> \o filterNonEmpty(Tail(parts))

\* Rank of a character in the collation String.prototype.localeCompare uses:
\* punctuation before letters, letters by alphabet whatever their case.
CollationRank(c) ==
    IF c = "/" THEN 1
    ELSE IF c = "." THEN 2
    ELSE 2 + (CHOOSE i \in 1..Len(LowerChars) : LowerChars[i] = CharToLower(c))

\* First position where the two strings differ at the primary level, 0 if none.
RECURSIVE primaryCompare(_, _)
primaryCompare(a, b) ==
    IF a = <<>> /\ b = <<>> THEN 0
    ELSE IF a = <<>> THEN -1
    ELSE IF b = <<>> THEN 1
    ELSE IF CollationRank(Head(a)) < CollationRank(Head(b)) THEN -1
    ELSE IF CollationRank(Head(a)) > CollationRank(Head(b)) THEN 1
    ELSE primaryCompare(Tail(a), Tail(b))

\* Case decides only between strings equal at the primary level: lower case first.
RECURSIVE tertiaryCompare(_, _)
tertiaryCompare(a, b) ==
    IF a = <<>> \/ b = <<>> THEN 0
    ELSE IF Head(a) = Head(b) THEN tertiaryCompare(Tail(a), Tail(b))
    ELSE IF IsUpper(Head(b)) THEN -1
    ELSE 1

localeCompare(a, b) ==
    IF primaryCompare(a, b) # 0 THEN primaryCompare(a, b) ELSE tertiaryCompare(a, b)

-----------------------------------------------------------------------------
(* shared/utils/fileUtils.js *)

getFileExtension(filename) ==
    LET parts == split(filename, ".")
    IN  IF Len(parts) > 1 THEN <<".">> \o parts[Len(parts)] ELSE <<>>

getFileBaseName(filename) ==
    LET parts == split(filename, ".")
    IN  IF Len(parts) > 1 THEN join(SubSeq(parts, 1, Len(parts) - 1), ".") ELSE filename

-----------------------------------------------------------------------------
(* github.js: file filtering *)

\* The extensions of the list that the names of the model can end with.
binaryExtensions == << <<".","g","z">>, <<".","s","o">> >>

TextSizeLimit == 100 * 1024

\* An isTextFile that also turns away a file of exactly the limit.
isTextFileBelowLimit(path, size) ==
    LET isBinary == \E i \in 1..Len(binaryExtensions) :
                        endsWith(toLowerCase(path), binaryExtensions[i])
        isTooLarge == size >= TextSizeLimit
    IN  ~isBinary /\ ~isTooLarge

isTextFile(path, size) ==
    LET isBinary == \E i \in 1..Len(binaryExtensions) :
                        endsWith(toLowerCase(path), binaryExtensions[i])
        isTooLarge == size > TextSizeLimit
    IN  ~isBinary /\ ~isTooLarge

shouldIncludeFile(item) == item.type = "blob" /\ isTextFile(item.path, item.size)

-----------------------------------------------------------------------------
(* github.js: githubTreeToVirtualFS *)

RepoName == <<"o","/","r">>
GithubRepo == <<"o","r","m">>

\* A node object.  A property the code never sets holds UNDEF (NoChildren for
\* the children of a file).
Node(type, name, dir, path, children, ext, base, lang, content, githubPath, githubRepo) ==
    [type |-> type, name |-> name, dir |-> dir, path |-> path,
     children |-> children, root |-> UNDEF, toCwd |-> UNDEF,
     ext |-> ext, base |-> base, lang |-> lang, content |-> content,
     githubPath |-> githubPath, githubRepo |-> githubRepo]

NewDirectory(name, dir, path) ==
    Node("directory", name, dir, path, <<>>, UNDEF, UNDEF, UNDEF, UNDEF, UNDEF, UNDEF)

\* children.push(child) on the node at index dirIdx of the heap.
pushChild(nodes, dirIdx, child) ==
    LET idx == Len(nodes) + 1
    IN  [Append(nodes, child) EXCEPT ![dirIdx].children = Append(@, idx)]

\* `/${filterPath ? filterPath + '/' : ''}${rel}`
nodePath(fp, rel) ==
    <<"/">> \o (IF fp # <<>> THEN fp \o <<"/">> ELSE <<>>) \o rel

\* The chain of .filter / .map / .filter that selects the files to place.
RECURSIVE selectFiles(_, _)
selectFiles(tree, fp) ==
    IF tree = <<>> THEN <<>>
    ELSE LET item == Head(tree)
             relativePath == IF fp # <<>>
                             THEN stripLeadingSlash(slice(item.path, Len(fp)))
                             ELSE item.path
             keep == /\ shouldIncludeFile(item)
                     /\ (IF fp # <<>> THEN startsWith(item.path, fp) ELSE TRUE)
                     /\ relativePath # <<>>
         IN  (IF keep
              THEN <<[path |-> item.path, size |-> item.size, relativePath |-> relativePath]>>
              ELSE <<>>) \o selectFiles(Tail(tree), fp)

\* pathParts.forEach: b is [nodes, pathMap, currentPath, currentDir].
RECURSIVE placeDirectories(_, _, _)
placeDirectories(b, pathParts, fp) ==
    IF pathParts = <<>> THEN b
    ELSE LET part == Head(pathParts)
             currentPath == IF b.currentPath # <<>>
                            THEN b.currentPath \o <<"/">> \o part
                            ELSE part
             missing == currentPath \notin DOMAIN b.pathMap
             parts == split(currentPath, "/")
             newDir == NewDirectory(part,
                                    join(SubSeq(parts, 1, Len(parts) - 1), "/"),
                                    nodePath(fp, currentPath))
             nodes == IF missing THEN pushChild(b.nodes, b.currentDir, newDir) ELSE b.nodes
             pathMap == IF missing
                        THEN (currentPath :> Len(nodes)) @@ b.pathMap
                        ELSE b.pathMap
         IN  placeDirectories([nodes |-> nodes, pathMap |-> pathMap,
                               currentPath |-> currentPath,
                               currentDir |-> pathMap[currentPath]],
                              Tail(pathParts), fp)

\* One iteration of files.forEach.
placeFile(b, file, fp) ==
    LET allParts == split(file.relativePath, "/")
        fileName == allParts[Len(allParts)]
        pathParts == SubSeq(allParts, 1, Len(allParts) - 1)
        d == placeDirectories([nodes |-> b.nodes, pathMap |-> b.pathMap,
                               currentPath |-> <<>>, currentDir |-> 1],
                              pathParts, fp)
        ext == getFileExtension(fileName)
        fileNode == Node("file", fileName, d.currentPath, nodePath(fp, file.relativePath),
                         NoChildren, ext, getFileBaseName(fileName), ext, <<>>,
                         file.path, GithubRepo)
    IN  [nodes |-> pushChild(d.nodes, d.currentDir, fileNode), pathMap |-> d.pathMap]

RECURSIVE placeFiles(_, _, _)
placeFiles(b, files, fp) ==
    IF files = <<>> THEN b
    ELSE placeFiles(placeFile(b, Head(files), fp), Tail(files), fp)

\* A comparator that forgets the rule on types.
compareNodesTypeBlind(a, b) == localeCompare(a.name, b.name)

\* The comparator of sortChildren, on node objects.
compareNodes(a, b) ==
    IF a.type # b.type
    THEN (IF a.type = "directory" THEN -1 ELSE 1)
    ELSE localeCompare(a.name, b.name)

\* Array.prototype.sort is a stable sort: each element goes after the last
\* element that does not compare greater.
\* The comparator of the upload and gist loaders: names only.
compareNames(a, b) == localeCompare(a.name, b.name)

comparator(byType, a, b) == IF byType THEN compareNodes(a, b) ELSE compareNames(a, b)

RECURSIVE insertSorted(_, _, _, _)
insertSorted(nodes, sorted, x, byType) ==
    IF sorted = <<>> THEN <<x>>
    ELSE IF comparator(byType, nodes[sorted[Len(sorted)]], nodes[x]) <= 0
    THEN Append(sorted, x)
    ELSE Append(insertSorted(nodes, SubSeq(sorted, 1, Len(sorted) - 1), x, byType),
                sorted[Len(sorted)])

RECURSIVE sortFrom(_, _, _, _)
sortFrom(nodes, sorted, rest, byType) ==
    IF rest = <<>> THEN sorted
    ELSE sortFrom(nodes, insertSorted(nodes, sorted, Head(rest), byType), Tail(rest), byType)

\* dir.children.sort(comparator) of sortChildren
sortedChildren(nodes, dirIdx) == sortFrom(nodes, <<>>, nodes[dirIdx].children, TRUE)

\* A sortChildren that sorts the one directory and does not descend.
sortChildrenShallow(nodes, dirIdx) ==
    IF nodes[dirIdx].children # NoChildren
    THEN [nodes EXCEPT ![dirIdx].children = sortedChildren(nodes, dirIdx)]
    ELSE nodes

RECURSIVE sortChildren(_, _)
RECURSIVE sortEach(_, _)
sortEach(nodes, kids) ==
    IF kids = <<>> THEN nodes
    ELSE sortEach(IF nodes[Head(kids)].type = "directory"
                  THEN sortChildren(nodes, Head(kids))
                  ELSE nodes,
                  Tail(kids))

sortChildren(nodes, dirIdx) ==
    IF nodes[dirIdx].children # NoChildren
    THEN LET sorted == [nodes EXCEPT ![dirIdx].children = sortedChildren(nodes, dirIdx)]
         IN  sortEach(sorted, sorted[dirIdx].children)
    ELSE nodes

githubTreeToVirtualFS(data, fp) ==
    LET files == selectFiles(data, fp)
        root == NewDirectory(IF fp # <<>> THEN fp ELSE RepoName, UNDEF, UNDEF)
        built == placeFiles([nodes |-> <<root>>, pathMap |-> (<<>> :> 1)], files, fp)
    IN  sortChildren(built.nodes, 1)

-----------------------------------------------------------------------------
(* fs.js: getFile *)

\* children.find((child) => child.name === part): the first match, or NoNode.
findChild(nodes, dirIdx, part) ==
    LET kids == nodes[dirIdx].children
        hits == {k \in 1..Len(kids) : nodes[kids[k]].name = part}
    IN  IF hits = {} THEN NoNode
        ELSE kids[CHOOSE k \in hits : \A j \in hits : k <= j]

\* The for loop: current is a heap index, NoNode for undefined/null.
RECURSIVE walk(_, _, _)
walk(nodes, current, parts) ==
    IF parts = <<>> THEN current
    ELSE IF current # NoNode /\ nodes[current].children # NoChildren
    THEN LET next == findChild(nodes, current, Head(parts))
         IN  IF next = NoNode THEN NoNode ELSE walk(nodes, next, Tail(parts))
    ELSE NoNode

\* getFile without its final test of the node's type.
getFileAnyType(nodes, path) ==
    IF path = <<>> \/ nodes = NULL THEN NoNode
    ELSE LET cleanPath == IF startsWith(path, <<"/">>) THEN slice(path, 1) ELSE path
             parts == filterNonEmpty(split(cleanPath, "/"))
         IN  walk(nodes, 1, parts)

\* getFile of the fs.js that exports setVirtualFS.
getFile(nodes, path) ==
    IF path = <<>> \/ nodes = NULL THEN NoNode
    ELSE LET cleanPath == IF startsWith(path, <<"/">>) THEN slice(path, 1) ELSE path
             parts == filterNonEmpty(split(cleanPath, "/"))
             current == walk(nodes, 1, parts)
         IN  IF current # NoNode /\ nodes[current].type = "file" THEN current ELSE NoNode

\* The for loop of the fs.js without setVirtualFS: a failed find leaves
\* current undefined, and the next iteration or the final test sees it.
RECURSIVE walkPlain(_, _, _)
walkPlain(nodes, current, parts) ==
    IF parts = <<>> THEN current
    ELSE IF current # NoNode /\ nodes[current].children # NoChildren
    THEN walkPlain(nodes, findChild(nodes, current, Head(parts)), Tail(parts))
    ELSE NoNode

\* getFile of the fs.js without setVirtualFS: no guard, no cleanPath.
getFilePlain(nodes, path) ==
    LET parts == filterNonEmpty(split(path, "/"))
        current == walkPlain(nodes, IF nodes = NULL THEN NoNode ELSE 1, parts)
    IN  IF current # NoNode /\ nodes[current].type = "file" THEN current ELSE NoNode

-----------------------------------------------------------------------------
(* fs.js: addVirtualFSMetadata *)

RECURSIVE repeat(_, _)
repeat(s, n) == IF n = 0 THEN <<>> ELSE s \o repeat(s, n - 1)

toCwdOf(dir) ==
    LET depth == Len(filterNonEmpty(split(dir, "/")))
    IN  IF depth = 0 THEN <<".">>
        ELSE LET dots == repeat(<<".", ".", "/">>, depth)
             IN  SubSeq(dots, 1, Len(dots) - 1)

\* The assignments without the test of !node.lang: lang is always the ext.
annotateOverwritingLang(node, root) ==
    [node EXCEPT
        !.root = root,
        !.toCwd = IF node.dir # UNDEF THEN toCwdOf(node.dir) ELSE @,
        !.lang = IF node.type = "file" /\ node.ext \notin {UNDEF, <<>>}
                 THEN node.ext ELSE @]

\* The assignments addVirtualFSMetadata makes to one node.
annotate(node, root) ==
    [node EXCEPT
        !.root = root,
        !.toCwd = IF node.dir # UNDEF THEN toCwdOf(node.dir) ELSE @,
        !.lang = IF node.type = "file" /\ node.ext \notin {UNDEF, <<>>}
                    /\ node.lang \in {UNDEF, <<>>}
                 THEN node.ext ELSE @]

RECURSIVE addVirtualFSMetadata(_, _, _)
RECURSIVE annotateEach(_, _, _)
annotateEach(nodes, kids, root) ==
    IF kids = <<>> THEN nodes
    ELSE annotateEach(addVirtualFSMetadata(nodes, Head(kids), root), Tail(kids), root)

addVirtualFSMetadata(nodes, i, root) ==
    LET marked == [nodes EXCEPT ![i] = annotate(nodes[i], root)]
    IN  IF marked[i].children # NoChildren
        THEN annotateEach(marked, marked[i].children, root)
        ELSE marked

-----------------------------------------------------------------------------
(* The remote listings the tree builder is run on *)

MaxEntries == 3

Blob(path, size) == [path |-> path, type |-> "blob", size |-> size]

\* Entries of a recursive git-tree listing: blobs at several depths, names
\* that differ by case only, a name that extends another, a blob of exactly
\* the size limit, an oversized blob, binary blobs in both cases and a tree
\* entry.
RepoEntries ==
    { Blob(<<"B">>, 1), Blob(<<"a">>, 1), Blob(<<"b">>, 1), Blob(<<"a","B">>, 1),
      Blob(<<"a","/","B">>, 1), Blob(<<"a","/","a">>, 1),
      Blob(<<"a","B","/","a">>, 1), Blob(<<"a","/","B","/","a">>, 1),
      Blob(<<"B">>, TextSizeLimit), Blob(<<"b">>, TextSizeLimit + 1),
      Blob(<<"a",".","g","z">>, 1), Blob(<<"B",".","G","z">>, 1),
      [path |-> <<"a">>, type |-> "tree", size |-> 0] }

FilterPaths == { <<>>, <<"a">> }

\* What git allows: one entry per path, and nothing below the path of a blob.
ValidListing(l) ==
    \A i, j \in DOMAIN l :
        i # j => /\ l[i].path # l[j].path
                 /\ (l[i].type = "blob" => ~startsWith(l[j].path, l[i].path \o <<"/">>))

Listings ==
    { l \in UNION { [1..n -> RepoEntries] : n \in 0..MaxEntries } : ValidListing(l) }

NoLookup == [path |-> <<>>, of |-> NoNode, node |-> NoNode, plain |-> NoNode]

FileNodes(nodes) == { i \in DOMAIN nodes : nodes[i].type = "file" }

DirectoryNodes(nodes) == { i \in DOMAIN nodes : nodes[i].type = "directory" }

-----------------------------------------------------------------------------
(* SpecTree: githubTreeToVirtualFS on every listing, then getFile on the   *)
(* path of a file node of the tree it returned                             *)

InitTree ==
    /\ virtualFS = NULL
    /\ githubData \in Listings
    /\ filterPath \in FilterPaths
    /\ pc = "fetched"
    /\ lookup = NoLookup
    /\ configTree = NULL
    /\ configPath = <<>>
    /\ config = <<>>
    /\ OthersInit

\* fs.js loadFS, GitHub branch, after the await of fetchRepoTree.
BuildGitHubTree ==
    /\ pc = "fetched"
    /\ virtualFS' = githubTreeToVirtualFS(githubData, filterPath)
    /\ pc' = "loaded"
    /\ UNCHANGED <<githubData, filterPath, lookup, configTree, configPath, config, appState, uiState>>

\* getFile(f.path) for a file node f of the current tree.
GetFileOfNode ==
    /\ pc = "loaded"
    /\ \E f \in FileNodes(virtualFS) :
          lookup' = [path |-> virtualFS[f].path, of |-> f,
                     node |-> getFile(virtualFS, virtualFS[f].path),
                     plain |-> getFilePlain(virtualFS, virtualFS[f].path)]
    /\ pc' = "looked"
    /\ UNCHANGED <<virtualFS, githubData, filterPath, configTree, configPath, config, appState, uiState>>

NextTree == BuildGitHubTree \/ GetFileOfNode

SpecTree == InitTree /\ [][NextTree]_vars

-----------------------------------------------------------------------------
(* RepoLoader.jsx: handleFileUpload and handleLoadGist *)

MaxUpload == 2

\* The node pushed for one uploaded or gist file.
FlatFile(name, content) ==
    LET ext == getFileExtension(name)
    IN  Node("file", name, UNDEF, <<"/">> \o name, NoChildren, ext,
             getFileBaseName(name), ext, content, UNDEF, UNDEF)

RECURSIVE pushFiles(_, _)
pushFiles(nodes, files) ==
    IF files = <<>> THEN nodes
    ELSE pushFiles(pushChild(nodes, 1, FlatFile(Head(files).name, Head(files).content)),
                   Tail(files))

\* The tree both handlers build: a root with path '/', the files pushed in
\* order, then children.sort by name.
flatTree(rootName, files) ==
    LET root == [NewDirectory(rootName, UNDEF, <<"/">>) EXCEPT !.children = <<>>]
        pushed == pushFiles(<<root>>, files)
    IN  [pushed EXCEPT ![1].children = sortFrom(pushed, <<>>, pushed[1].children, FALSE)]

UploadedFilesName == <<"u","p">>
GistName == <<"g","i","s","t">>

FlatNames == { <<"b">>, <<"B">>, <<"a",".","j","s">> }
Contents == { <<>>, <<"x">> }

FlatFileLists ==
    { l \in UNION { [1..n -> [name : FlatNames, content : Contents]] : n \in 1..MaxUpload } :
        \A i, j \in DOMAIN l : i # j => l[i].name # l[j].name }

-----------------------------------------------------------------------------
(* The static JSON snapshots loadFS fetches *)

StaticDir(name, dir, path, children) ==
    [NewDirectory(name, dir, path) EXCEPT !.children = children]

StaticFile(name, dir, path, lang, content) ==
    Node("file", name, dir, path, NoChildren, getFileExtension(name),
         getFileBaseName(name), lang, content, UNDEF, UNDEF)

\* / { a/ { B, c.js (lang set) }, b }
SnapshotNested ==
    << StaticDir(<<"r">>, <<>>, <<"/">>, <<2, 5>>),
       StaticDir(<<"a">>, <<>>, <<"/","a">>, <<3, 4>>),
       StaticFile(<<"B">>, <<"a">>, <<"/","a","/","B">>, UNDEF, <<"x">>),
       StaticFile(<<"c",".","j","s">>, <<"a">>, <<"/","a","/","c",".","j","s">>,
                  <<".","t","s">>, <<"x">>),
       StaticFile(<<"b">>, <<>>, <<"/","b">>, UNDEF, <<>>) >>

\* / { a.js (lang unset) }
SnapshotFlat ==
    << StaticDir(<<"r">>, <<>>, <<"/">>, <<2>>),
       StaticFile(<<"a",".","j","s">>, <<>>, <<"/","a",".","j","s">>, UNDEF, <<"x">>) >>

\* / { }
SnapshotEmpty == << StaticDir(<<"r">>, <<>>, <<"/">>, <<>>) >>

StaticSnapshots == { SnapshotNested, SnapshotFlat, SnapshotEmpty }

-----------------------------------------------------------------------------
(* AppContext.jsx: the current file and the file history *)

HistoryLimit == 50

RECURSIVE otherPaths(_, _)
otherPaths(prev, path) ==
    IF prev = <<>> THEN <<>>
    ELSE (IF field(Head(prev), "path") # path THEN <<Head(prev)>> ELSE <<>>)
         \o otherPaths(Tail(prev), path)

\* An addToHistory that keeps the earlier entries of the path.
addToHistoryKeepingPath(prev, file) ==
    LET all == <<file>> \o prev
    IN  SubSeq(all, 1, IF Len(all) < HistoryLimit THEN Len(all) ELSE HistoryLimit)

\* [file, ...prev.filter(f => f.path !== file.path)].slice(0, 50)
addToHistory(prev, file) ==
    LET all == <<file>> \o otherPaths(prev, field(file, "path"))
    IN  SubSeq(all, 1, IF Len(all) < HistoryLimit THEN Len(all) ELSE HistoryLimit)

\* setCurrentFileWithHistory(file), the setCurrentFile of useApp: nothing
\* when file is null or is the current file, else setCurrentFile(file) and
\* addToHistory(file).
SetCurrentFile(file) ==
    IF file # NoFile /\ file # currentFile
    THEN /\ currentFile' = file
         /\ fileHistory' = addToHistory(fileHistory, file)
    ELSE UNCHANGED <<currentFile, fileHistory>>

-----------------------------------------------------------------------------
(* RepoLoader.jsx: findReadmeFile and findAndSelectReadme *)

ReadmePrefix == <<"r","e","a","d","m","e">>
IndexMd == <<"i","n","d","e","x",".","m","d">>
IndexHtml == <<"i","n","d","e","x",".","h","t","m","l">>

isReadme(node) ==
    /\ node.type = "file"
    /\ LET lowerName == toLowerCase(node.name)
       IN  startsWith(lowerName, ReadmePrefix) \/ lowerName = IndexMd \/ lowerName = IndexHtml

\* The first such file of the depth-first search, NoNode for null.
RECURSIVE findReadmeFile(_, _)
RECURSIVE findReadmeIn(_, _)
findReadmeIn(nodes, kids) ==
    IF kids = <<>> THEN NoNode
    ELSE LET found == findReadmeFile(nodes, Head(kids))
         IN  IF found # NoNode THEN found ELSE findReadmeIn(nodes, Tail(kids))

findReadmeFile(nodes, i) ==
    IF isReadme(nodes[i]) THEN i
    ELSE IF nodes[i].children # NoChildren THEN findReadmeIn(nodes, nodes[i].children)
    ELSE NoNode

\* findAndSelectReadme(tree, setCurrentFile), and setCurrentFile(null) when
\* it selected nothing.
SelectReadme(tree) ==
    IF findReadmeFile(tree, 1) # NoNode
    THEN SetCurrentFile(tree[findReadmeFile(tree, 1)])
    ELSE SetCurrentFile(NoFile)

-----------------------------------------------------------------------------
(* Spec: the loaders install trees, getFile looks paths up *)

\* Listings a repository URL can answer with, and the path of the URL.
SampleListings ==
    { <<>>,
      << Blob(<<"b">>, 1), Blob(<<"a","/","B">>, 1), Blob(<<"B">>, 1) >>,
      << Blob(<<"a","/","B","/","a">>, 1), Blob(<<"a","/","a">>, 1),
         [path |-> <<"a">>, type |-> "tree", size |-> 0] >>,
      << Blob(<<"a","B">>, 1), Blob(<<"a","/","B">>, 1) >>,
      << Blob(<<"a","B","/","a">>, 1), Blob(<<"a","/","B">>, 1) >>,
      << Blob(<<"b">>, TextSizeLimit + 1), Blob(<<"a",".","g","z">>, 1) >> }

\* Paths a caller hands to getFile: the paths of the nodes of the current
\* tree, with and without the leading slash, with doubled and trailing
\* slashes, below a file, and paths of no node.
LookupPaths(nodes) ==
    LET own == { nodes[i].path : i \in DOMAIN nodes } \ {UNDEF}
        bare == { stripLeadingSlash(q) : q \in own }
    IN  own \cup bare
        \cup { q \o <<"/">> : q \in own }
        \cup { <<"/">> \o q : q \in own }
        \cup { q \o <<"/","a">> : q \in own }
        \cup { <<>>, <<"a">>, <<"/","B">>, <<"a","/","c">>, <<"/","a","/","b">> }

Init ==
    /\ virtualFS = NULL
    /\ githubData = <<>>
    /\ filterPath = <<>>
    /\ pc = "idle"
    /\ lookup = NoLookup
    /\ configTree = NULL
    /\ configPath = <<>>
    /\ config = <<>>
    /\ OthersInit

\* loadFS(source), not a GitHub URL: fetch, response.json(), addVirtualFSMetadata.
LoadFSStatic ==
    /\ pc = "idle"
    /\ \E snapshot \in StaticSnapshots :
          virtualFS' = addVirtualFSMetadata(snapshot, 1, <<"/">>)
    /\ lookup' = NoLookup
    /\ UNCHANGED <<githubData, filterPath, pc, configTree, configPath, config, appState, uiState>>

\* handleLoadRepo -> loadFS(GitHub URL): up to the await of fetchRepoTree.
LoadFSGitHubFetch ==
    /\ pc = "idle"
    /\ githubData' \in SampleListings
    /\ filterPath' \in FilterPaths
    /\ pc' = "fetching"
    /\ lookup' = NoLookup
    /\ UNCHANGED <<virtualFS, configTree, configPath, config, appState, uiState>>

\* The listing arrived: githubTreeToVirtualFS, assignment, setVirtualFS,
\* findAndSelectReadme.
LoadFSGitHubInstall ==
    /\ pc = "fetching"
    /\ virtualFS' = githubTreeToVirtualFS(githubData, filterPath)
    /\ SelectReadme(virtualFS')
    /\ githubData' = <<>>
    /\ filterPath' = <<>>
    /\ pc' = "idle"
    /\ lookup' = NoLookup
    /\ UNCHANGED <<configTree, configPath, config, response, inflight, fetched, pending,
                   request, appError, randomFile, opCount, widgetState>>

\* fetchRepoTree threw: loadFS rethrows, handleLoadRepo shows the error.
LoadFSGitHubFail ==
    /\ pc = "fetching"
    /\ githubData' = <<>>
    /\ filterPath' = <<>>
    /\ pc' = "idle"
    /\ UNCHANGED <<virtualFS, lookup, configTree, configPath, config, appState, uiState>>

\* handleFileUpload: the tree of the chosen files, setVirtualFS,
\* findAndSelectReadme.
HandleFileUpload ==
    /\ pc = "idle"
    /\ \E files \in FlatFileLists : virtualFS' = flatTree(UploadedFilesName, files)
    /\ SelectReadme(virtualFS')
    /\ lookup' = NoLookup
    /\ UNCHANGED <<githubData, filterPath, pc, configTree, configPath, config, response,
                   inflight, fetched, pending, request, appError, randomFile, opCount,
                   widgetState>>

\* handleLoadGist: the tree of the files of the gist, setVirtualFS,
\* findAndSelectReadme.
HandleLoadGist ==
    /\ pc = "idle"
    /\ \E files \in FlatFileLists : virtualFS' = flatTree(GistName, files)
    /\ SelectReadme(virtualFS')
    /\ lookup' = NoLookup
    /\ UNCHANGED <<githubData, filterPath, pc, configTree, configPath, config, response,
                   inflight, fetched, pending, request, appError, randomFile, opCount,
                   widgetState>>

\* getFile(path) with both versions of fs.js, on the current tree.
GetFile ==
    /\ \E path \in LookupPaths(virtualFS) :
          lookup' = [path |-> path, of |-> NoNode,
                     node |-> getFile(virtualFS, path),
                     plain |-> getFilePlain(virtualFS, path)]
    /\ UNCHANGED <<virtualFS, githubData, filterPath, pc, configTree, configPath, config, appState, uiState>>

Next ==
    \/ LoadFSStatic
    \/ LoadFSGitHubFetch
    \/ LoadFSGitHubInstall
    \/ LoadFSGitHubFail
    \/ HandleFileUpload
    \/ HandleLoadGist
    \/ GetFile

Spec == Init /\ [][Next]_vars

-----------------------------------------------------------------------------
(* SpecAnnotate: addVirtualFSMetadata, twice, on the trees the loaders build *)

\* / { a.js with lang '' }
SnapshotEmptyLang ==
    << StaticDir(<<"r">>, <<>>, <<"/">>, <<2>>),
       StaticFile(<<"a",".","j","s">>, <<>>, <<"/","a",".","j","s">>, <<>>, <<"x">>) >>

\* The trees before annotation: parsed snapshots, uploaded files, GitHub trees.
RawTrees ==
    StaticSnapshots \cup {SnapshotEmptyLang}
    \cup { flatTree(UploadedFilesName, files) : files \in FlatFileLists }
    \cup { githubTreeToVirtualFS(l, fp) : l \in SampleListings, fp \in FilterPaths }

\* The root identifiers a caller supplies.
RootIds == { <<"/">>, <<"r">> }

InitAnnotate ==
    /\ virtualFS \in RawTrees
    /\ githubData = <<>>
    /\ filterPath = <<>>
    /\ pc = "raw"
    /\ lookup = NoLookup
    /\ configTree = NULL
    /\ configPath = <<>>
    /\ config = <<>>
    /\ OthersInit

\* addVirtualFSMetadata(virtualFS, root) on a tree that was never annotated.
AnnotateFirst ==
    /\ pc = "raw"
    /\ \E root \in RootIds : virtualFS' = addVirtualFSMetadata(virtualFS, 1, root)
    /\ pc' = "once"
    /\ UNCHANGED <<githubData, filterPath, lookup, configTree, configPath, config, appState, uiState>>

\* addVirtualFSMetadata(virtualFS, root) again, with the root it was given.
AnnotateAgain ==
    /\ pc = "once"
    /\ virtualFS' = addVirtualFSMetadata(virtualFS, 1, virtualFS[1].root)
    /\ pc' = "twice"
    /\ UNCHANGED <<githubData, filterPath, lookup, configTree, configPath, config, appState, uiState>>

NextAnnotate == AnnotateFirst \/ AnnotateAgain

SpecAnnotate == InitAnnotate /\ [][NextAnnotate]_vars

-----------------------------------------------------------------------------
(* SpecLazy: loadFileContent on the file nodes of a GitHub tree *)

FetchSizeLimit == 1024 * 1024

MaxCalls == 2

MaxOps == 3

\* What the contents API answers: an empty file, a small file, a file of
\* exactly the limit, a file over the limit, a directory, and a 404.
ContentResponses ==
    { [ok |-> TRUE, type |-> "file", size |-> 0, content |-> <<>>],
      [ok |-> TRUE, type |-> "file", size |-> 1, content |-> <<"x">>],
      [ok |-> TRUE, type |-> "file", size |-> FetchSizeLimit, content |-> <<"x">>],
      [ok |-> TRUE, type |-> "file", size |-> FetchSizeLimit + 1, content |-> <<"x">>],
      [ok |-> TRUE, type |-> "dir", size |-> 0, content |-> <<>>],
      [ok |-> FALSE, type |-> "file", size |-> 0, content |-> <<>>] }

\* fetchFileContent once the response is there: the decoded content, or the
\* error it throws.
fetchFileContent(data) ==
    IF ~data.ok THEN [threw |-> TRUE, outcome |-> "not found", content |-> <<>>]
    ELSE IF data.type # "file" THEN [threw |-> TRUE, outcome |-> "not a file", content |-> <<>>]
    ELSE IF data.size > FetchSizeLimit
    THEN [threw |-> TRUE, outcome |-> "too large", content |-> <<>>]
    ELSE [threw |-> FALSE, outcome |-> "ok", content |-> data.content]

\* `// Error loading file: ${error.message}`
ErrorContent(outcome) == <<"// Error loading file: ", outcome>>

\* The condition both loadFileContent and loadGitHubFile fetch under.
needsFetch(file) ==
    /\ file.githubRepo # UNDEF
    /\ file.githubPath # UNDEF
    /\ file.content \in {UNDEF, <<>>}

\* A loadFileContent without the try and catch: the error of the fetch is
\* the rejection of its promise.
loadFileContentRethrowing(r) ==
    IF r.threw
    THEN [assigned |-> FALSE, content |-> UNDEF, rejected |-> TRUE, value |-> UNDEF]
    ELSE [assigned |-> TRUE, content |-> r.content, rejected |-> FALSE,
          value |-> r.content]

\* loadFileContent after the await: the content it assigns, in the try or
\* in the catch, and file.content || '' that it resolves with.
loadFileContent(r) ==
    LET content == IF r.threw THEN ErrorContent(r.outcome) ELSE r.content
    IN  [assigned |-> TRUE, content |-> content, rejected |-> FALSE,
         value |-> orElse(content, <<>>)]

InitLazy ==
    /\ virtualFS \in { githubTreeToVirtualFS(l, fp) : l \in SampleListings, fp \in FilterPaths }
    /\ githubData = <<>>
    /\ filterPath = <<>>
    /\ pc = "idle"
    /\ lookup = NoLookup
    /\ configTree = NULL
    /\ configPath = <<>>
    /\ config = <<>>
    /\ OthersInit

\* loadFileContent(file), up to the await of the fetch inside loadGitHubFile;
\* when the node has content it returns at once.
LoadFileContent ==
    /\ opCount < MaxOps
    /\ opCount' = opCount + 1
    /\ Len(inflight) < MaxCalls
    /\ \E f \in FileNodes(virtualFS) :
          inflight' = IF needsFetch(virtualFS[f]) THEN Append(inflight, f) ELSE inflight
    /\ UNCHANGED <<virtualFS, githubData, filterPath, pc, lookup, configTree, configPath,
                   config, response, fetched, pending, request, currentFile, appError,
                   randomFile, fileHistory, widgetState>>

\* The response of one fetch arrives: fetchFileContent returns or throws,
\* loadGitHubFile caches the content or rethrows, loadFileContent assigns
\* the content or, in its catch, the error comment.
FetchCompletes ==
    /\ \E k \in DOMAIN inflight, data \in ContentResponses :
          LET f == inflight[k]
              r == fetchFileContent(data)
              done == loadFileContent(r)
          IN  /\ virtualFS' = IF done.assigned
                              THEN [virtualFS EXCEPT ![f].content = done.content]
                              ELSE virtualFS
              /\ inflight' = SubSeq(inflight, 1, k - 1) \o SubSeq(inflight, k + 1, Len(inflight))
              /\ fetched' = { c \in fetched : c.file # f }
                                \cup {[file |-> f, outcome |-> r.outcome,
                                       rejected |-> done.rejected, value |-> done.value]}
    /\ UNCHANGED <<githubData, filterPath, pc, lookup, configTree, configPath, config,
                   response, pending, request, currentFile, appError, randomFile, uiState>>

NextLazy == LoadFileContent \/ FetchCompletes

SpecLazy == InitLazy /\ [][NextLazy]_vars

-----------------------------------------------------------------------------
(* SpecLoad: loadFS step by step, with getFile between its awaits *)

\* A dir that is not a string: node.dir.split is not a function.
NotAString == <<"number">>

\* / { a.js, b with "dir": 5, c }
SnapshotBadDir ==
    << StaticDir(<<"r">>, <<>>, <<"/">>, <<2, 3, 4>>),
       StaticFile(<<"a",".","j","s">>, <<>>, <<"/","a",".","j","s">>, UNDEF, <<"x">>),
       StaticFile(<<"b">>, NotAString, <<"/","b">>, UNDEF, <<"x">>),
       StaticFile(<<"c">>, <<>>, <<"/","c">>, UNDEF, <<"x">>) >>

\* What fetch(source) answers with: JSON of a tree, JSON null, JSON of a tree
\* with a node that cannot be annotated, and a body that is not JSON.
ResponseBodies ==
    { [json |-> TRUE, value |-> snapshot] :
          snapshot \in StaticSnapshots \cup {NULL, SnapshotBadDir} }
    \cup { [json |-> FALSE, value |-> NULL] }

\* The nodes in the order addVirtualFSMetadata visits them.
RECURSIVE preorder(_, _)
RECURSIVE preorderEach(_, _)
preorderEach(nodes, kids) ==
    IF kids = <<>> THEN <<>>
    ELSE preorder(nodes, Head(kids)) \o preorderEach(nodes, Tail(kids))

preorder(nodes, i) ==
    <<i>> \o (IF nodes[i].children # NoChildren
              THEN preorderEach(nodes, nodes[i].children)
              ELSE <<>>)

\* addVirtualFSMetadata(virtualFS, root) on what response.json() gave: on
\* null the first assignment throws; at a node whose dir is not a string
\* node.dir.split throws, after node.root was set, and the nodes visited
\* before it keep their annotations.
addVirtualFSMetadataOrThrow(nodes, root) ==
    IF nodes = NULL THEN [threw |-> TRUE, nodes |-> NULL]
    ELSE LET order == preorder(nodes, 1)
             bad == { k \in DOMAIN order : nodes[order[k]].dir = NotAString }
         IN  IF bad = {}
             THEN [threw |-> FALSE, nodes |-> addVirtualFSMetadata(nodes, 1, root)]
             ELSE LET first == CHOOSE k \in bad : \A j \in bad : k <= j
                  IN  [threw |-> TRUE,
                       nodes |-> [i \in DOMAIN nodes |->
                                    IF \E k \in 1..(first - 1) : order[k] = i
                                    THEN annotate(nodes[i], root)
                                    ELSE IF i = order[first]
                                    THEN [nodes[i] EXCEPT !.root = root]
                                    ELSE nodes[i]]]

\* loadFS(source), not a GitHub URL: up to the await of fetch(source).
LoadFSStaticStart ==
    /\ pc = "idle"
    /\ pc' = "requested"
    /\ lookup' = NoLookup
    /\ UNCHANGED <<virtualFS, githubData, filterPath, configTree, configPath, config, appState, uiState>>

\* fetch(source) rejects: loadFS rethrows.
LoadFSStaticFetchFail ==
    /\ pc = "requested"
    /\ pc' = "idle"
    /\ UNCHANGED <<virtualFS, githubData, filterPath, lookup, configTree, configPath,
                   config, appState, uiState>>

\* fetch(source) resolves: up to the await of response.json().
LoadFSStaticResponse ==
    /\ pc = "requested"
    /\ response' \in ResponseBodies
    /\ pc' = "parsing"
    /\ UNCHANGED <<virtualFS, githubData, filterPath, lookup, configTree, configPath,
                   config, inflight, fetched, pending, request, currentFile, appError,
                   randomFile, uiState>>

\* response.json() rejects: loadFS rethrows.
LoadFSStaticJsonFail ==
    /\ pc = "parsing"
    /\ ~response.json
    /\ response' = NoResponse
    /\ pc' = "idle"
    /\ UNCHANGED <<virtualFS, githubData, filterPath, lookup, configTree, configPath,
                   config, inflight, fetched, pending, request, currentFile, appError,
                   randomFile, uiState>>

\* response.json() resolves: virtualFS is assigned, addVirtualFSMetadata
\* annotates it, loadFS returns it.
LoadFSStaticInstall ==
    /\ pc = "parsing"
    /\ response.json
    /\ ~addVirtualFSMetadataOrThrow(response.value, <<"/">>).threw
    /\ virtualFS' = addVirtualFSMetadataOrThrow(response.value, <<"/">>).nodes
    /\ response' = NoResponse
    /\ pc' = "idle"
    /\ lookup' = NoLookup
    /\ UNCHANGED <<githubData, filterPath, configTree, configPath, config, inflight,
                   fetched, pending, request, currentFile, appError, randomFile, uiState>>

\* response.json() resolves: virtualFS is assigned, addVirtualFSMetadata
\* throws, loadFS rethrows.
LoadFSStaticThrow ==
    /\ pc = "parsing"
    /\ response.json
    /\ addVirtualFSMetadataOrThrow(response.value, <<"/">>).threw
    /\ virtualFS' = addVirtualFSMetadataOrThrow(response.value, <<"/">>).nodes
    /\ response' = NoResponse
    /\ pc' = "idle"
    /\ lookup' = NoLookup
    /\ UNCHANGED <<githubData, filterPath, configTree, configPath, config, inflight,
                   fetched, pending, request, currentFile, appError, randomFile, uiState>>

NextLoad ==
    \/ LoadFSStaticStart
    \/ LoadFSStaticFetchFail
    \/ LoadFSStaticResponse
    \/ LoadFSStaticJsonFail
    \/ LoadFSStaticInstall
    \/ LoadFSStaticThrow
    \/ LoadFSGitHubFetch
    \/ LoadFSGitHubInstall
    \/ LoadFSGitHubFail
    \/ GetFile

SpecLoad == Init /\ [][NextLoad]_vars

-----------------------------------------------------------------------------
(* SpecEdit: editor updates that run after the tree they were made for *)

\* What the editor holds when the timer is set.
EditContents == { <<"x">>, <<"y">> }

\* { ...node, editorContent: content, hasChanges: content !== node.content }
withEditorContent(node, content) ==
    [editorContent |-> content, hasChanges |-> content # node.content] @@ node

\* updateFileInNode of useFileEditor: the node of that path is replaced by a
\* copy with the editor's content, the nodes above it by copies, and the
\* search does not go below a node that matched.
RECURSIVE updateFileInNode(_, _, _, _)
RECURSIVE updateEach(_, _, _, _)
updateEach(nodes, kids, path, content) ==
    IF kids = <<>> THEN nodes
    ELSE updateEach(updateFileInNode(nodes, Head(kids), path, content),
                    Tail(kids), path, content)

updateFileInNode(nodes, i, path, content) ==
    IF nodes[i].path = path
    THEN [nodes EXCEPT ![i] = withEditorContent(nodes[i], content)]
    ELSE IF nodes[i].children # NoChildren
    THEN updateEach(nodes, nodes[i].children, path, content)
    ELSE nodes

\* updateFileContent of useFileEditor, as the closure the timer holds: fs
\* is the virtualFS of the render that made it.
updateFileContent(fs, filePath, content) ==
    IF fs = NULL \/ filePath = <<>> THEN [set |-> FALSE, fs |-> NULL]
    ELSE [set |-> TRUE, fs |-> updateFileInNode(fs, 1, filePath, content)]

\* debouncedUpdateFileContent(content) in the editor of a file of the
\* current tree: clearTimeout, then setTimeout of the updateFileContent of
\* this render.
DebouncedUpdateFileContent ==
    /\ pc = "idle"
    /\ virtualFS # NULL
    /\ \E f \in FileNodes(virtualFS), content \in EditContents :
          pending' = [timer |-> TRUE, fs |-> virtualFS,
                      filePath |-> virtualFS[f].path, content |-> content]
    /\ UNCHANGED <<virtualFS, githubData, filterPath, pc, lookup, configTree, configPath,
                   config, response, inflight, fetched, request, currentFile, appError,
                   randomFile, uiState>>

\* The 500 ms are over: the callback runs and calls setVirtualFS(updatedFS).
TimerFires ==
    /\ pending.timer
    /\ LET r == updateFileContent(pending.fs, pending.filePath, pending.content)
       IN  virtualFS' = IF r.set THEN r.fs ELSE virtualFS
    /\ pending' = NoEdit
    /\ lookup' = NoLookup
    /\ UNCHANGED <<githubData, filterPath, pc, configTree, configPath, config, response,
                   inflight, fetched, request, currentFile, appError, randomFile, uiState>>

NextEdit ==
    \/ LoadFSStatic
    \/ LoadFSGitHubFetch
    \/ LoadFSGitHubInstall
    \/ LoadFSGitHubFail
    \/ DebouncedUpdateFileContent
    \/ TimerFires

SpecEdit == Init /\ [][NextEdit]_vars

-----------------------------------------------------------------------------
(* fs.js: getRandomFile and findSimilarFile *)

\* String.prototype.includes
includes(s, sub) ==
    \E i \in 0..(Len(s) - Len(sub)) : SubSeq(s, i + 1, i + Len(sub)) = sub

RECURSIVE keepFiles(_, _)
keepFiles(nodes, order) ==
    IF order = <<>> THEN <<>>
    ELSE (IF nodes[Head(order)].type = "file" THEN <<Head(order)>> ELSE <<>>)
         \o keepFiles(nodes, Tail(order))

\* A collect that pushes every node it visits, directories too.
collectAll(nodes, i) == preorder(nodes, i)

\* collect(dir): the file nodes at and below a node, in the order of the
\* traversal.
collect(nodes, i) == keepFiles(nodes, preorder(nodes, i))

\* The argument of getRandomFile: none, null, or a node of the current tree.
DefaultDir == [kind |-> "default", at |-> NoNode]
NullDir == [kind |-> "null", at |-> NoNode]
NodeDir(i) == [kind |-> "node", at |-> i]

\* The node getRandomFile of the fs.js that exports setVirtualFS searches
\* from: a missing or null argument is replaced by the current tree.
randomRoot(nodes, dir) ==
    IF dir.kind = "node" THEN dir.at
    ELSE IF nodes # NULL THEN 1 ELSE NoNode

\* The same in the fs.js without setVirtualFS: only a missing argument is
\* replaced by the current tree; on null it returns null.
randomRootPlain(nodes, dir) ==
    IF dir.kind = "node" THEN dir.at
    ELSE IF dir.kind = "default" /\ nodes # NULL THEN 1 ELSE NoNode

\* What getRandomFile can return when it searches from a node:
\* files[Math.floor(Math.random() * files.length)], or null.
randomPicks(nodes, from) ==
    IF from = NoNode THEN {NoNode}
    ELSE LET files == collect(nodes, from)
         IN  IF Len(files) > 0 THEN { files[k] : k \in 1..Len(files) } ELSE {NoNode}

\* array.filter(test)[0] over the files, for the two tests of findSimilarFile.
firstSimilarDir(nodes, files, requestedDir) ==
    LET hits == { k \in DOMAIN files :
                    LET parts == split(nodes[files[k]].path, "/")
                        fileDir == join(SubSeq(parts, 1, Len(parts) - 1), "/")
                    IN  includes(fileDir, requestedDir) \/ includes(requestedDir, fileDir) }
    IN  IF hits = {} THEN NoNode ELSE files[CHOOSE k \in hits : \A j \in hits : k <= j]

firstWithKeyword(nodes, files, dirKeywords) ==
    LET hits == { k \in DOMAIN files :
                    \E w \in DOMAIN dirKeywords :
                        includes(nodes[files[k]].path, dirKeywords[w]) }
    IN  IF hits = {} THEN NoNode ELSE files[CHOOSE k \in hits : \A j \in hits : k <= j]

findSimilarFile(nodes, requestedPath) ==
    IF nodes = NULL \/ requestedPath = <<>> THEN NoNode
    ELSE LET allFiles == collect(nodes, 1)
             pathParts == filterNonEmpty(split(requestedPath, "/"))
             dirKeywords == SubSeq(pathParts, 1, Len(pathParts) - 1)
             requestedDir == join(dirKeywords, "/")
             bySimilarDir == IF requestedDir # <<>>
                             THEN firstSimilarDir(nodes, allFiles, requestedDir)
                             ELSE NoNode
         IN  IF bySimilarDir # NoNode THEN bySimilarDir
             ELSE IF Len(dirKeywords) > 0
             THEN firstWithKeyword(nodes, allFiles, dirKeywords)
             ELSE NoNode

-----------------------------------------------------------------------------
(* SpecFallback: AppContent resolves the file path of the URL *)

\* / { d/ { e }, README.md }
SnapshotReadme ==
    << StaticDir(<<"r">>, <<>>, <<"/">>, <<2, 4>>),
       StaticDir(<<"d">>, <<>>, <<"/","d">>, <<3>>),
       StaticFile(<<"e">>, <<"d">>, <<"/","d","/","e">>, UNDEF, <<"x">>),
       StaticFile(<<"R","E","A","D","M","E",".","m","d">>, <<>>,
                  <<"/","R","E","A","D","M","E",".","m","d">>, UNDEF, <<"x">>) >>

\* / { d/ { e } }
SnapshotDeep ==
    << StaticDir(<<"r">>, <<>>, <<"/">>, <<2>>),
       StaticDir(<<"d">>, <<>>, <<"/","d">>, <<3>>),
       StaticFile(<<"e">>, <<"d">>, <<"/","d","/","e">>, UNDEF, <<"x">>) >>

\* What content.json can hold.
StartupContents == StaticSnapshots \cup {SnapshotReadme, SnapshotDeep}

\* The file paths a URL can name: those getFile is tried on, and paths in
\* directories the tree does not have.
RequestPaths(nodes) ==
    LookupPaths(nodes) \cup { <<"/","z","/","z">>, <<"/","z">>, <<"/","d","/","z">> }

\* The list of initializeApp; handleHashChange tries its first five.
fallbackFiles ==
    << <<"/","R","E","A","D","M","E",".","m","d">>,
       <<"/","r","e","a","d","m","e",".","m","d">>,
       <<"/","i","n","d","e","x",".","j","s">>,
       <<"/","i","n","d","e","x",".","h","t","m","l">>,
       <<"/","i","n","d","e","x",".","m","d">>,
       <<"/","m","a","i","n",".","j","s">>,
       <<"/","a","p","p",".","j","s">> >>

HashFallbackCount == 5

\* for (const path of fallbackFiles) { fallbackFile = getFile(path); if (fallbackFile) break; }
firstFallback(nodes, paths) ==
    LET hits == { k \in DOMAIN paths : getFile(nodes, paths[k]) # NoNode }
    IN  IF hits = {} THEN NoNode
        ELSE getFile(nodes, paths[CHOOSE k \in hits : \A j \in hits : k <= j])

\* The message of the ReferenceError of getRandomFile(virtualFS) in
\* initializeApp, where no virtualFS is in scope.
ReferenceErrorMessage == "virtualFS is not defined"

InitBoot ==
    /\ virtualFS = NULL
    /\ githubData = <<>>
    /\ filterPath = <<>>
    /\ pc = "boot"
    /\ lookup = NoLookup
    /\ configTree = NULL
    /\ configPath = <<>>
    /\ config = <<>>
    /\ OthersInit

\* initializeApp, without shared code in the URL: setVirtualFS(content),
\* getFile(filePath), the similar or random file when it is not found, the
\* list of fallback files when nothing was selected, and the catch.
InitializeApp ==
    /\ pc = "boot"
    /\ \E content \in StartupContents :
       \E filePath \in RequestPaths(content), random \in randomPicks(content, 1) :
          LET found == getFile(content, filePath)
              similar == findSimilarFile(content, filePath)
              fileToLoad == IF filePath = <<>> THEN NoNode
                            ELSE IF found # NoNode THEN found
                            ELSE IF similar # NoNode THEN similar
                            ELSE random
              fallbackFile == firstFallback(content, fallbackFiles)
          IN  /\ virtualFS' = content
              /\ request' = [handler |-> "initializeApp", filePath |-> filePath]
              /\ SetCurrentFile(IF fileToLoad # NoNode THEN content[fileToLoad]
                                ELSE IF fallbackFile # NoNode THEN content[fallbackFile]
                                ELSE NoFile)
              /\ appError' = IF fileToLoad = NoNode /\ fallbackFile = NoNode
                             THEN ReferenceErrorMessage ELSE appError
    /\ pc' = "idle"
    /\ lookup' = NoLookup
    /\ UNCHANGED <<githubData, filterPath, configTree, configPath, config, response,
                   inflight, fetched, pending, randomFile, opCount, widgetState>>

\* handleHashChange, without shared code in the URL: getFile(filePath), and
\* the list of fallback files when it is not found.
HandleHashChange ==
    /\ pc = "idle"
    /\ \E filePath \in RequestPaths(virtualFS) :
          LET fileToLoad == getFile(virtualFS, filePath)
              fallbackFile == firstFallback(virtualFS, SubSeq(fallbackFiles, 1, HashFallbackCount))
          IN  /\ request' = [handler |-> "handleHashChange", filePath |-> filePath]
              /\ SetCurrentFile(IF filePath = <<>> THEN NoFile
                                ELSE IF fileToLoad # NoNode THEN virtualFS[fileToLoad]
                                ELSE IF fallbackFile # NoNode THEN virtualFS[fallbackFile]
                                ELSE NoFile)
    /\ UNCHANGED <<virtualFS, githubData, filterPath, pc, lookup, configTree, configPath,
                   config, response, inflight, fetched, pending, appError, randomFile,
                   opCount, widgetState>>

\* getRandomFile(dir) with both versions of fs.js, on the current tree; the
\* tree of the call is kept with what it returned.
GetRandomFile ==
    /\ \E dir \in {DefaultDir, NullDir} \cup { NodeDir(i) : i \in DOMAIN virtualFS } :
       \E node \in randomPicks(virtualFS, randomRoot(virtualFS, dir)),
          plain \in randomPicks(virtualFS, randomRootPlain(virtualFS, dir)) :
          randomFile' = [dir |-> dir, fs |-> virtualFS, node |-> node, plain |-> plain]
    /\ UNCHANGED <<virtualFS, githubData, filterPath, pc, lookup, configTree, configPath,
                   config, response, inflight, fetched, pending, request, currentFile,
                   appError, uiState>>

NextFallback ==
    \/ InitializeApp
    \/ HandleHashChange
    \/ GetRandomFile

SpecFallback == InitBoot /\ [][NextFallback]_vars

-----------------------------------------------------------------------------
(* fs.js and AppContext.jsx: the operations on a file of the built tree *)

\* updateFile(path, content): file.content = content when getFile finds it.
updateFile(nodes, path, content) ==
    LET file == getFilePlain(nodes, path)
    IN  IF file # NoNode THEN [nodes EXCEPT ![file].content = content] ELSE nodes

\* The instant of new Date().toISOString() and Date.now().
Now == "now"

\* cacheLensPreferences(path, lensNames): studyCache is created when the
\* file has none, then lenses and lastModified are assigned.
cacheLensPreferences(nodes, path, lensNames) ==
    LET file == getFilePlain(nodes, path)
    IN  IF file # NoNode
        THEN [nodes EXCEPT ![file] =
                 [studyCache |-> [lenses |-> lensNames, lastModified |-> Now]] @@ @]
        ELSE nodes

\* delete object.key
without(object, key) == [k \in DOMAIN object \ {key} |-> object[k]]

\* clearCachedLenses(path): lenses is deleted from studyCache, and
\* studyCache itself when nothing is left in it.
clearCachedLenses(nodes, path) ==
    LET file == getFilePlain(nodes, path)
    IN  IF file # NoNode /\ "studyCache" \in DOMAIN nodes[file]
        THEN LET cache == without(nodes[file].studyCache, "lenses")
             IN  [nodes EXCEPT ![file] =
                     IF DOMAIN cache = {} THEN without(@, "studyCache")
                     ELSE [studyCache |-> cache] @@ @]
        ELSE nodes

\* The nodes updateFS and resetFS of AppProvider replace: a node whose path
\* is resourcePath, of any type; the children of a node that was replaced
\* are not visited.
RECURSIVE replaced(_, _, _)
replaced(nodes, i, resourcePath) ==
    IF field(nodes[i], "path") = resourcePath THEN {i}
    ELSE IF nodes[i].children # NoChildren
    THEN UNION { replaced(nodes, nodes[i].children[k], resourcePath) :
                    k \in DOMAIN nodes[i].children }
    ELSE {}

\* The copy updateFileContent makes without the spread of the children.
updatedWithoutChildren(fs, newContent, isPseudocode) ==
    [children |-> NoChildren, content |-> newContent, editorContent |-> newContent] @@ fs

\* The object updateFileContent puts in the place of fs.
updated(fs, newContent, isPseudocode) ==
    LET originalContent == orElse(field(fs, "originalContent"), field(fs, "content"))
        modifications == [content |-> newContent, timestamp |-> Now,
                          hasChanges |-> originalContent # newContent]
    IN  IF isPseudocode
        THEN [content |-> field(fs, "content"),
              isPseudocode |-> TRUE,
              originalLang |-> field(fs, "originalLang"),
              originalContent |-> originalContent,
              editorContent |-> newContent,
              modifications |-> [pseudocodeContent |-> newContent] @@ modifications] @@ fs
        ELSE [content |-> newContent,
              originalContent |-> originalContent,
              editorContent |-> newContent,
              modifications |-> modifications] @@ fs

\* The object setCurrentFile(prev => ...) of updateFileContent returns.
updatedCurrent(prev, seen, newContent) ==
    LET originalContent == orElse(field(seen, "originalContent"), field(seen, "content"))
    IN  [content |-> newContent,
         originalContent |-> originalContent,
         editorContent |-> newContent,
         modifications |-> [content |-> newContent, timestamp |-> Now,
                            hasChanges |-> originalContent # newContent]] @@ prev

\* The object resetFileContent puts in the place of fs, and the one its
\* setCurrentFile(prev => ...) returns.
reset(fs, seen) ==
    LET originalContent == orElse(field(seen, "originalContent"), field(seen, "content"))
    IN  [content |-> originalContent,
         editorContent |-> originalContent,
         modifications |-> [content |-> originalContent, timestamp |-> Now,
                            hasChanges |-> FALSE]] @@ fs

\* updateFS(virtualFS) of updateFileContent.
updateFS(nodes, resourcePath, newContent, isPseudocode) ==
    LET hit == replaced(nodes, 1, resourcePath)
    IN  [i \in DOMAIN nodes |->
            IF i \in hit THEN updated(nodes[i], newContent, isPseudocode) ELSE nodes[i]]

\* resetFS(virtualFS) of resetFileContent.
resetFS(nodes, resourcePath) ==
    LET hit == replaced(nodes, 1, resourcePath)
    IN  [i \in DOMAIN nodes |-> IF i \in hit THEN reset(nodes[i], nodes[i]) ELSE nodes[i]]

-----------------------------------------------------------------------------
(* SpecMutate: the operations on files, on a tree that is built *)

\* The trees the operations run on: an annotated snapshot with a directory
\* and an empty file, and the tree of a repository listing.
MutateTrees ==
    { addVirtualFSMetadata(SnapshotNested, 1, <<"/">>),
      githubTreeToVirtualFS(<< Blob(<<"b">>, 1), Blob(<<"a","/","B">>, 1) >>, <<>>) }

\* The paths the operations are called with: those of the nodes, and one
\* of no node.
MutatePaths(nodes) ==
    ({ nodes[i].path : i \in DOMAIN nodes } \ {UNDEF}) \cup { <<"/","z">> }

NewContents == { <<>>, <<"y">> }

LensLists == { <<>>, <<"highlight">> }

InitMutate ==
    /\ virtualFS \in MutateTrees
    /\ githubData = <<>>
    /\ filterPath = <<>>
    /\ pc = "idle"
    /\ lookup = NoLookup
    /\ configTree = NULL
    /\ configPath = <<>>
    /\ config = <<>>
    /\ OthersInit

\* A click on a file of the browser whose content is there:
\* setCurrentFile(file).
SelectFile ==
    /\ opCount < MaxOps
    /\ opCount' = opCount + 1
    /\ \E f \in FileNodes(virtualFS) :
          /\ ~(virtualFS[f].githubRepo # UNDEF /\ virtualFS[f].content \in {UNDEF, <<>>})
          /\ SetCurrentFile(virtualFS[f])
    /\ UNCHANGED <<treeState, response, inflight, fetched, pending, request, appError,
                   randomFile, widgetState>>

UpdateFile ==
    /\ opCount < MaxOps
    /\ opCount' = opCount + 1
    /\ \E path \in MutatePaths(virtualFS), content \in NewContents :
          virtualFS' = updateFile(virtualFS, path, content)
    /\ UNCHANGED <<githubData, filterPath, pc, lookup, configTree, configPath, config,
                   appState, fileHistory, widgetState>>

CacheLensPreferences ==
    /\ opCount < MaxOps
    /\ opCount' = opCount + 1
    /\ \E path \in MutatePaths(virtualFS), lensNames \in LensLists :
          virtualFS' = cacheLensPreferences(virtualFS, path, lensNames)
    /\ UNCHANGED <<githubData, filterPath, pc, lookup, configTree, configPath, config,
                   appState, fileHistory, widgetState>>

ClearCachedLenses ==
    /\ opCount < MaxOps
    /\ opCount' = opCount + 1
    /\ \E path \in MutatePaths(virtualFS) :
          virtualFS' = clearCachedLenses(virtualFS, path)
    /\ UNCHANGED <<githubData, filterPath, pc, lookup, configTree, configPath, config,
                   appState, fileHistory, widgetState>>

\* The history of the edits: an updateFileContent on a node that is not
\* under edit, or whose content something else changed since, starts a
\* sequence with the content it finds; each one records the content it leaves.
editStarted(history, before, after, hit) ==
    [i \in (DOMAIN history) \cup hit |->
        IF i \notin hit THEN history[i]
        ELSE [before |-> IF i \in DOMAIN history /\ history[i].now = field(before[i], "content")
                         THEN history[i].before
                         ELSE field(before[i], "content"),
              now |-> field(after[i], "content")]]

\* A resetFileContent ends the sequences of the nodes it replaces.
editEnded(history, hit) == [i \in (DOMAIN history) \ hit |-> history[i]]

\* AppProvider.updateFileContent(resourcePath, newContent, options).
UpdateFileContent ==
    /\ opCount < MaxOps
    /\ opCount' = opCount + 1
    /\ virtualFS # NULL
    /\ \E resourcePath \in MutatePaths(virtualFS), newContent \in NewContents,
          isPseudocode \in BOOLEAN :
          /\ virtualFS' = updateFS(virtualFS, resourcePath, newContent, isPseudocode)
          /\ currentFile' =
                IF currentFile # NoFile /\ currentFile.path = resourcePath
                THEN updatedCurrent(currentFile, currentFile, newContent)
                ELSE currentFile
          /\ beforeUpdate' = editStarted(beforeUpdate, virtualFS, virtualFS',
                                         replaced(virtualFS, 1, resourcePath))
    /\ UNCHANGED <<githubData, filterPath, pc, lookup, configTree, configPath, config,
                   response, inflight, fetched, pending, request, appError, randomFile,
                   fileHistory, expandedDirs, lastSelected, leitnerState, lensState,
                   debounceState>>

\* AppProvider.resetFileContent(resourcePath).
ResetFileContent ==
    /\ opCount < MaxOps
    /\ opCount' = opCount + 1
    /\ virtualFS # NULL
    /\ \E resourcePath \in MutatePaths(virtualFS) :
          /\ virtualFS' = resetFS(virtualFS, resourcePath)
          /\ currentFile' =
                IF currentFile # NoFile /\ currentFile.path = resourcePath
                THEN reset(currentFile, currentFile)
                ELSE currentFile
          /\ beforeUpdate' = editEnded(beforeUpdate, replaced(virtualFS, 1, resourcePath))
    /\ UNCHANGED <<githubData, filterPath, pc, lookup, configTree, configPath, config,
                   response, inflight, fetched, pending, request, appError, randomFile,
                   fileHistory, expandedDirs, lastSelected, leitnerState, lensState,
                   debounceState>>

NextMutate ==
    \/ SelectFile
    \/ UpdateFile
    \/ CacheLensPreferences
    \/ ClearCachedLenses
    \/ LoadFileContent
    \/ FetchCompletes
    \/ UpdateFileContent
    \/ ResetFileContent

SpecMutate == InitMutate /\ [][NextMutate]_vars

-----------------------------------------------------------------------------
(* FileBrowser.jsx: the file tree it renders *)

LensesJson == <<"l","e","n","s","e","s",".","j","s","o","n">>

\* A test that hides the configuration file only.
hiddenLensesOnly(name) == name = LensesJson

\* node.name === 'lenses.json' || node.name.startsWith('.')
hidden(name) == name = LensesJson \/ startsWith(name, <<".">>)

\* renderFileTree(node): the nodes an element is made for.
RECURSIVE renderFileTree(_, _, _)
renderFileTree(nodes, i, expanded) ==
    IF hidden(nodes[i].name) THEN {}
    ELSE {i} \cup
         IF nodes[i].children # NoChildren /\ nodes[i].path \in expanded
         THEN UNION { renderFileTree(nodes, nodes[i].children[k], expanded) :
                         k \in { j \in DOMAIN nodes[i].children :
                                    ~hidden(nodes[nodes[i].children[j]].name) } }
         ELSE {}

\* What FileBrowser returns: nothing of the tree while there is none, else
\* the children of the root, or the root when it has no children property.
renderBrowser(nodes, expanded) ==
    IF nodes = NULL THEN {}
    ELSE IF nodes[1].children # NoChildren
    THEN UNION { renderFileTree(nodes, nodes[1].children[k], expanded) :
                    k \in DOMAIN nodes[1].children }
    ELSE renderFileTree(nodes, 1, expanded)

-----------------------------------------------------------------------------
(* SpecBrowser: directories are opened and closed, trees are replaced *)

\* Repositories with dot files, dot directories and lenses.json files at
\* several depths, and a directory named lenses.json.
BrowserListings ==
    { << Blob(<<".","g","/","a">>, 1),
         Blob(<<"a","/","l","e","n","s","e","s",".","j","s","o","n">>, 1),
         Blob(<<"a","/",".","h","/","b">>, 1),
         Blob(<<"a","/","b">>, 1),
         Blob(<<"l","e","n","s","e","s",".","j","s","o","n">>, 1),
         Blob(<<"c">>, 1) >>,
      << Blob(<<"a","/","d","/","b">>, 1),
         Blob(<<"a","/","d","/",".","e">>, 1),
         Blob(<<"e","/","f","/","l","e","n","s","e","s",".","j","s","o","n">>, 1),
         Blob(<<"e","/","f","/","c">>, 1),
         Blob(<<".","b">>, 1),
         Blob(<<".","g","/","a">>, 1) >>,
      << Blob(<<"a","/","b">>, 1),
         Blob(<<"e","/",".","h","/","d","/","c">>, 1),
         Blob(<<"e","/","d","/","c">>, 1),
         Blob(<<"d","/","l","e","n","s","e","s",".","j","s","o","n","/","c">>, 1) >> }

BrowserTrees == { githubTreeToVirtualFS(l, <<>>) : l \in BrowserListings }

\* setVirtualFS(tree) by a loader: FileBrowser renders the new tree with the
\* expandedDirs it has.
ShowTree ==
    /\ virtualFS' \in BrowserTrees
    /\ lookup' = NoLookup
    /\ UNCHANGED <<githubData, filterPath, pc, configTree, configPath, config, appState,
                   uiState>>

\* A click on a directory that is rendered: toggleDirectory(node.path).
ToggleDirectory ==
    /\ \E d \in renderBrowser(virtualFS, expandedDirs) :
          /\ virtualFS[d].type = "directory"
          /\ expandedDirs' = IF virtualFS[d].path \in expandedDirs
                             THEN expandedDirs \ {virtualFS[d].path}
                             ELSE expandedDirs \cup {virtualFS[d].path}
    /\ UNCHANGED <<treeState, appState, fileHistory, opCount, beforeUpdate, lastSelected,
                   leitnerState, lensState, debounceState>>

NextBrowser == ShowTree \/ ToggleDirectory

SpecBrowser == Init /\ [][NextBrowser]_vars

-----------------------------------------------------------------------------
(* SpecSelect: the handlers of RepoLoader, one load after another *)

\* What the URL of the example button can answer with.
ExampleSnapshots == { SnapshotReadme, SnapshotDeep }

\* handleLoadRepo with the URL of a static snapshot: loadFS, setVirtualFS,
\* findAndSelectReadme.
HandleLoadRepoStatic ==
    /\ pc = "idle"
    /\ \E snapshot \in ExampleSnapshots :
          virtualFS' = addVirtualFSMetadata(snapshot, 1, <<"/">>)
    /\ SelectReadme(virtualFS')
    /\ lookup' = NoLookup
    /\ UNCHANGED <<githubData, filterPath, pc, configTree, configPath, config, response,
                   inflight, fetched, pending, request, appError, randomFile, opCount,
                   widgetState>>

NextSelect ==
    \/ HandleLoadRepoStatic
    \/ LoadFSGitHubFetch
    \/ LoadFSGitHubInstall
    \/ LoadFSGitHubFail
    \/ HandleFileUpload
    \/ HandleLoadGist

SpecSelect == Init /\ [][NextSelect]_vars

-----------------------------------------------------------------------------
(* SpecHistory: a learner walks through more files than the history keeps *)

MaxFiles == 52

Digit == <<"0","1","2","3","4","5","6","7","8","9">>

Numeral(n) == << Digit[(n \div 10) + 1], Digit[(n % 10) + 1] >>

\* The file objects handed to setCurrentFile.
HistoryFile(n) ==
    [type |-> "file", name |-> Numeral(n), path |-> <<"/">> \o Numeral(n), content |-> <<"x">>]

\* The object that takes the place of a file in the tree once it is edited.
Edited(file) == [file EXCEPT !.content = <<"y">>]

\* The number of the last file of the walk the history holds, 0 when none.
lastOpened(history) ==
    LET opened == { n \in 1..MaxFiles :
                        \E k \in DOMAIN history : history[k].path = HistoryFile(n).path }
    IN  IF opened = {} THEN 0 ELSE CHOOSE n \in opened : \A m \in opened : m <= n

\* A click on the next file of the walk.
SelectNextFile ==
    /\ lastOpened(fileHistory) < MaxFiles
    /\ LET file == HistoryFile(lastOpened(fileHistory) + 1)
       IN  /\ SetCurrentFile(file)
           /\ lastSelected' = file
    /\ UNCHANGED <<treeState, response, inflight, fetched, pending, request, appError,
                   randomFile, opCount, expandedDirs, beforeUpdate, leitnerState, lensState,
                   debounceState>>

\* A click on the first file of the walk again, as it was or edited since;
\* the click on the file that is current is one of them.
SelectFirstFileAgain ==
    /\ lastOpened(fileHistory) >= 1
    /\ \E file \in { HistoryFile(1), Edited(HistoryFile(1)) } :
          /\ SetCurrentFile(file)
          /\ lastSelected' = file
    /\ UNCHANGED <<treeState, response, inflight, fetched, pending, request, appError,
                   randomFile, opCount, expandedDirs, beforeUpdate, leitnerState, lensState,
                   debounceState>>

NextHistory ==
    \/ SelectNextFile
    \/ SelectFirstFileAgain

SpecHistory == Init /\ [][NextHistory]_vars

-----------------------------------------------------------------------------
(* useLeitnerBox.js: the study session of the hook *)

\* The flashcards of the directory.
CardPaths == { <<"/","c","/","1">>, <<"/","c","/","2">>, <<"/","c","/","3">> }

\* What manager.getStudySession can answer: no card, or some of the cards,
\* each once, in any order.
StudySessions ==
    { cards \in UNION { [1..n -> CardPaths] : n \in 0..Cardinality(CardPaths) } :
        \A j, k \in DOMAIN cards : j # k => cards[j] # cards[k] }

\* The indices navigateToCard is called with.
CardIndices == -1..Cardinality(CardPaths)

\* startSession(options), studyCards being the answer of the manager.
startSession(studyCards) ==
    IF Len(studyCards) = 0
    THEN /\ call' = [name |-> "startSession", arg |-> studyCards, returned |-> JsFalse]
         /\ UNCHANGED <<currentSession, currentCardIndex, isSessionActive, recorded>>
    ELSE /\ currentSession' = studyCards
         /\ currentCardIndex' = 0
         /\ isSessionActive' = TRUE
         /\ call' = [name |-> "startSession", arg |-> studyCards, returned |-> JsTrue]
         /\ UNCHANGED recorded

\* endSession().
endSession ==
    /\ currentSession' = NoSession
    /\ currentCardIndex' = 0
    /\ isSessionActive' = FALSE
    /\ call' = [name |-> "endSession", arg |-> JsNull, returned |-> JsNull]
    /\ UNCHANGED recorded

\* A recordResponse that moves on from the last card as from any other.
recordResponseNeverEnding(correct) ==
    IF currentSession = NoSession \/ currentCardIndex >= Len(currentSession)
    THEN /\ call' = [name |-> "recordResponse", arg |-> correct, returned |-> JsFalse]
         /\ UNCHANGED <<currentSession, currentCardIndex, isSessionActive, recorded>>
    ELSE /\ recorded' = Append(recorded, [card |-> currentSession[currentCardIndex + 1],
                                          correct |-> correct])
         /\ currentCardIndex' = currentCardIndex + 1
         /\ call' = [name |-> "recordResponse", arg |-> correct, returned |-> JsFalse]
         /\ UNCHANGED <<currentSession, isSessionActive>>

\* recordResponse(correct): the card at currentCardIndex goes to the manager
\* with the argument, then the next card or the end of the session.
recordResponse(correct) ==
    IF currentSession = NoSession \/ currentCardIndex >= Len(currentSession)
    THEN /\ call' = [name |-> "recordResponse", arg |-> correct, returned |-> JsFalse]
         /\ UNCHANGED <<currentSession, currentCardIndex, isSessionActive, recorded>>
    ELSE /\ recorded' = Append(recorded, [card |-> currentSession[currentCardIndex + 1],
                                          correct |-> correct])
         /\ IF currentCardIndex + 1 >= Len(currentSession)
            THEN /\ currentSession' = NoSession
                 /\ currentCardIndex' = 0
                 /\ isSessionActive' = FALSE
                 /\ call' = [name |-> "recordResponse", arg |-> correct, returned |-> JsTrue]
            ELSE /\ currentCardIndex' = currentCardIndex + 1
                 /\ call' = [name |-> "recordResponse", arg |-> correct, returned |-> JsFalse]
                 /\ UNCHANGED <<currentSession, isSessionActive>>

\* navigateToCard(index).
navigateToCard(index) ==
    IF currentSession # NoSession /\ index >= 0 /\ index < Len(currentSession)
    THEN /\ currentCardIndex' = index
         /\ call' = [name |-> "navigateToCard", arg |-> index, returned |-> JsTrue]
         /\ UNCHANGED <<currentSession, isSessionActive, recorded>>
    ELSE /\ call' = [name |-> "navigateToCard", arg |-> index, returned |-> JsFalse]
         /\ UNCHANGED <<currentSession, currentCardIndex, isSessionActive, recorded>>

\* No card: the null of getCurrentCard.
NoCard == [cardPath |-> JsNull]

\* getCurrentCard().
getCurrentCard ==
    IF currentSession = NoSession \/ currentCardIndex >= Len(currentSession)
    THEN NoCard
    ELSE [cardPath |-> currentSession[currentCardIndex + 1],
          index |-> currentCardIndex,
          total |-> Len(currentSession),
          isLast |-> currentCardIndex = Len(currentSession) - 1,
          isFirst |-> currentCardIndex = 0]

-----------------------------------------------------------------------------
(* SpecLeitner: the calls of the hook, one on each render *)

StartSession ==
    /\ opCount < MaxOps
    /\ opCount' = opCount + 1
    /\ \E studyCards \in StudySessions : startSession(studyCards)
    /\ UNCHANGED <<treeState, appState, fileHistory, expandedDirs, beforeUpdate, lastSelected,
                   lensState, debounceState>>

EndSession ==
    /\ opCount < MaxOps
    /\ opCount' = opCount + 1
    /\ endSession
    /\ UNCHANGED <<treeState, appState, fileHistory, expandedDirs, beforeUpdate, lastSelected,
                   lensState, debounceState>>

RecordResponse ==
    /\ opCount < MaxOps
    /\ opCount' = opCount + 1
    /\ \E correct \in {JsTrue, JsFalse} : recordResponse(correct)
    /\ UNCHANGED <<treeState, appState, fileHistory, expandedDirs, beforeUpdate, lastSelected,
                   lensState, debounceState>>

NavigateToCard ==
    /\ opCount < MaxOps
    /\ opCount' = opCount + 1
    /\ \E index \in CardIndices : navigateToCard(index)
    /\ UNCHANGED <<treeState, appState, fileHistory, expandedDirs, beforeUpdate, lastSelected,
                   lensState, debounceState>>

NextLeitner ==
    \/ StartSession
    \/ EndSession
    \/ RecordResponse
    \/ NavigateToCard

SpecLeitner == Init /\ [][NextLeitner]_vars

-----------------------------------------------------------------------------
(* SpecFlashcard: FlashcardLens on a file of a directory of flashcards *)

\* / { c/ { 1, 2, 3 } }
SnapshotCards ==
    << StaticDir(<<"r">>, <<>>, <<"/">>, <<2>>),
       StaticDir(<<"c">>, <<>>, <<"/","c">>, <<3, 4, 5>>),
       StaticFile(<<"1">>, <<"c">>, <<"/","c","/","1">>, UNDEF, <<"x">>),
       StaticFile(<<"2">>, <<"c">>, <<"/","c","/","2">>, UNDEF, <<"x">>),
       StaticFile(<<"3">>, <<"c">>, <<"/","c","/","3">>, UNDEF, <<"x">>) >>

\* flashcardInfo.files: the files of the tree that are cards.
flashcardFiles == { f \in FileNodes(virtualFS) : virtualFS[f].path \in CardPaths }

\* setCurrentFile of flashcardInfo.files.find(f => f.path === cardPath),
\* when there is one.
ShowCard(cardPath) ==
    IF \E f \in flashcardFiles : virtualFS[f].path = cardPath
    THEN SetCurrentFile(virtualFS[CHOOSE f \in flashcardFiles : virtualFS[f].path = cardPath])
    ELSE UNCHANGED <<currentFile, fileHistory>>

\* The lens shows a card the learner selected.
InitFlashcard ==
    /\ virtualFS = addVirtualFSMetadata(SnapshotCards, 1, <<"/">>)
    /\ githubData = <<>>
    /\ filterPath = <<>>
    /\ pc = "idle"
    /\ lookup = NoLookup
    /\ configTree = NULL
    /\ configPath = <<>>
    /\ config = <<>>
    /\ response = NoResponse
    /\ inflight = <<>>
    /\ fetched = {}
    /\ pending = NoEdit
    /\ request = NoRequest
    /\ appError = NoError
    /\ randomFile = NoRandom
    /\ \E f \in FileNodes(virtualFS) :
          /\ currentFile = virtualFS[f]
          /\ fileHistory = <<virtualFS[f]>>
    /\ opCount = 0
    /\ expandedDirs = {<<"/">>}
    /\ beforeUpdate = <<>>
    /\ lastSelected = NoFile
    /\ currentSession = NoSession
    /\ currentCardIndex = 0
    /\ isSessionActive = FALSE
    /\ recorded = <<>>
    /\ call = NoCall
    /\ userResponse = JsNull
    /\ answers = <<>>
    /\ clock = 0
    /\ timers = {}
    /\ timeoutRef = NoTimer
    /\ nextTimerId = 1
    /\ bursts = <<>>

\* A click on one of the two answer buttons: handleResponse(correct), which
\* calls recordResponse(filePath, correct) of the hook; the hook takes its
\* first argument as the answer.
HandleResponse ==
    /\ opCount < MaxOps
    /\ opCount' = opCount + 1
    /\ userResponse = JsNull
    /\ \E correct \in {JsTrue, JsFalse} :
          /\ userResponse' = correct
          /\ answers' = Append(answers, [card |-> orElse(field(currentFile, "path"), <<>>),
                                        correct |-> correct])
          /\ recordResponse(orElse(field(currentFile, "path"), <<>>))
    /\ UNCHANGED <<treeState, appState, fileHistory, expandedDirs, beforeUpdate, lastSelected,
                   debounceState>>

\* A click on Next: handleNext.  getCurrentCard after navigateToCard or
\* startSession is that of the render the handler was created in.
HandleNext ==
    /\ opCount < MaxOps
    /\ opCount' = opCount + 1
    /\ userResponse # JsNull
    /\ userResponse' = JsNull
    /\ IF isSessionActive
       THEN IF getCurrentCard # NoCard /\ ~getCurrentCard.isLast
            THEN /\ navigateToCard(getCurrentCard.index + 1)
                 /\ ShowCard(getCurrentCard.cardPath)
            ELSE /\ endSession
                 /\ UNCHANGED <<currentFile, fileHistory>>
       ELSE IF Cardinality(flashcardFiles) > 1
            THEN /\ \E studyCards \in StudySessions : startSession(studyCards)
                 /\ UNCHANGED <<currentFile, fileHistory>>
            ELSE UNCHANGED <<currentFile, fileHistory, leitnerState>>
    /\ UNCHANGED <<treeState, response, inflight, fetched, pending, request, appError,
                   randomFile, expandedDirs, beforeUpdate, lastSelected, answers,
                   debounceState>>

\* A click on Previous: handlePrevious.
HandlePrevious ==
    /\ opCount < MaxOps
    /\ opCount' = opCount + 1
    /\ userResponse # JsNull
    /\ userResponse' = JsNull
    /\ IF isSessionActive /\ getCurrentCard # NoCard /\ ~getCurrentCard.isFirst
       THEN /\ navigateToCard(getCurrentCard.index - 1)
            /\ ShowCard(getCurrentCard.cardPath)
       ELSE UNCHANGED <<currentFile, fileHistory, leitnerState>>
    /\ UNCHANGED <<treeState, response, inflight, fetched, pending, request, appError,
                   randomFile, expandedDirs, beforeUpdate, lastSelected, answers,
                   debounceState>>

\* A click on one of the two buttons that start a study session.
StartSessionButton ==
    /\ opCount < MaxOps
    /\ opCount' = opCount + 1
    /\ ~isSessionActive
    /\ Cardinality(flashcardFiles) > 1
    /\ \E studyCards \in StudySessions : startSession(studyCards)
    /\ UNCHANGED <<treeState, appState, fileHistory, expandedDirs, beforeUpdate, lastSelected,
                   lensState, debounceState>>

NextFlashcard ==
    \/ HandleResponse
    \/ HandleNext
    \/ HandlePrevious
    \/ StartSessionButton

SpecFlashcard == InitFlashcard /\ [][NextFlashcard]_vars

-----------------------------------------------------------------------------
(* useDebounce.js: the debounced function and its timer *)

\* useDebounce(updateFileContent, 500): the delay, in ticks of 250 ms.
delay == 2

MaxTime == 6

\* The arguments of the calls.
DebouncedArgs == { <<"x">>, <<"y">> }

\* A clearTimeout that clears nothing.
clearNothing(set, id) == set

\* clearTimeout(id): the timeout of that id, if it is still set, never runs.
clearTimeout(set, id) == { t \in set : t.id # id }

\* A timeout is due: its callback runs before the next tick of the clock and
\* before the next call is handled.
Due == \E t \in timers : t.due <= clock

\* The history after a call: it continues the burst of the last call when
\* less than the delay passed since, else it starts a burst.
called(history, args) ==
    IF history # <<>> /\ clock - history[Len(history)].last.at < delay
    THEN [history EXCEPT ![Len(history)] =
            [@ EXCEPT !.last = [at |-> clock, args |-> args], !.calls = @ + 1]]
    ELSE Append(history, [last |-> [at |-> clock, args |-> args], calls |-> 1, runs |-> <<>>])

\* The history after a run of the callback.
ran(history, args) ==
    [history EXCEPT ![Len(history)] =
        [@ EXCEPT !.runs = Append(@, [at |-> clock, args |-> args])]]

\* A call of the debounced function: clearTimeout of the timeout the ref
\* holds, then setTimeout of the callback with these arguments.
Debounced ==
    /\ opCount < MaxOps
    /\ opCount' = opCount + 1
    /\ ~Due
    /\ \E args \in DebouncedArgs :
          /\ timers' = (IF timeoutRef # NoTimer THEN clearTimeout(timers, timeoutRef) ELSE timers)
                           \cup { [id |-> nextTimerId, due |-> clock + delay, args |-> args] }
          /\ bursts' = called(bursts, args)
    /\ timeoutRef' = nextTimerId
    /\ nextTimerId' = nextTimerId + 1
    /\ UNCHANGED <<treeState, appState, fileHistory, expandedDirs, beforeUpdate, lastSelected,
                   leitnerState, lensState, clock>>

\* The delay of a timeout is over: callback(...args).
TimeoutRuns ==
    /\ \E t \in timers :
          /\ t.due <= clock
          /\ timers' = timers \ {t}
          /\ bursts' = ran(bursts, t.args)
    /\ UNCHANGED <<treeState, appState, fileHistory, opCount, expandedDirs, beforeUpdate,
                   lastSelected, leitnerState, lensState, clock, timeoutRef, nextTimerId>>

\* Time passes.
Tick ==
    /\ clock < MaxTime
    /\ ~Due
    /\ clock' = clock + 1
    /\ UNCHANGED <<treeState, appState, fileHistory, opCount, expandedDirs, beforeUpdate,
                   lastSelected, leitnerState, lensState, timers, timeoutRef, nextTimerId,
                   bursts>>

NextDebounce ==
    \/ Debounced
    \/ TimeoutRuns
    \/ Tick

SpecDebounce == Init /\ [][NextDebounce]_vars

-----------------------------------------------------------------------------
(* config/index.js: loadConfigFromVirtualFS, the lenses.json cascade *)

\* A JSON value is an object, [k |-> "obj", v |-> a function of its keys], or
\* a leaf, [k |-> "leaf", v |-> its JSON text]: a number, string, boolean,
\* array or null.
Obj(f) == [k |-> "obj", v |-> f]
Leaf(text) == [k |-> "leaf", v |-> text]
EmptyObject == [key \in {} |-> Leaf("null")]

\* The contents a lenses.json has in the model.
LayerTexts ==
    { "{\"a\":1,\"b\":2}",
      "{\"b\":3}",
      "{\"a\":{\"x\":1,\"y\":{\"p\":true}}}",
      "{\"a\":{\"y\":{\"q\":true}}}",
      "{\"a\":[1],\"b\":null}",
      "{\"a\":1," }

\* JSON.parse on those contents: the parsed object, or the SyntaxError.
JSONParse(text) ==
    CASE text = "{\"a\":1,\"b\":2}" ->
            [ok |-> TRUE, value |-> [a |-> Leaf("1"), b |-> Leaf("2")]]
      [] text = "{\"b\":3}" ->
            [ok |-> TRUE, value |-> [b |-> Leaf("3")]]
      [] text = "{\"a\":{\"x\":1,\"y\":{\"p\":true}}}" ->
            [ok |-> TRUE,
             value |-> [a |-> Obj([x |-> Leaf("1"), y |-> Obj([p |-> Leaf("true")])])]]
      [] text = "{\"a\":{\"y\":{\"q\":true}}}" ->
            [ok |-> TRUE, value |-> [a |-> Obj([y |-> Obj([q |-> Leaf("true")])])]]
      [] text = "{\"a\":[1],\"b\":null}" ->
            [ok |-> TRUE, value |-> [a |-> Leaf("[1]"), b |-> Leaf("null")]]
      [] OTHER -> [ok |-> FALSE, value |-> EmptyObject]

\* A merge that replaces at the top level instead of recursing.
shallowMerge(target, source) ==
    [key \in DOMAIN target \cup DOMAIN source |->
        IF key \in DOMAIN source THEN source[key] ELSE target[key]]

\* A merge in which the ancestor's value wins.
ancestorWinsMerge(target, source) ==
    [key \in DOMAIN target \cup DOMAIN source |->
        IF key \in DOMAIN target THEN target[key] ELSE source[key]]

\* No merge: the deeper layer replaces the accumulated configuration.
replaceMerge(target, source) == source

\* Recursive for two objects at a key, replacement otherwise.
RECURSIVE deepMerge(_, _)
deepMerge(target, source) ==
    [key \in DOMAIN target \cup DOMAIN source |->
        IF key \notin DOMAIN source THEN target[key]
        ELSE IF key \in DOMAIN target /\ target[key].k = "obj" /\ source[key].k = "obj"
        THEN Obj(deepMerge(target[key].v, source[key].v))
        ELSE source[key]]

\* The directory the segments name, walking the children by name from the root.
findDirectory(tree, segs) ==
    LET d == walk(tree, 1, segs)
    IN  IF d # NoNode /\ tree[d].type = "directory" THEN d ELSE NoNode

\* The layer of one ancestor directory: [ok, value]; not ok when the
\* directory has no lenses.json or its content is not valid JSON.
layerOf(tree, segs) ==
    LET d == findDirectory(tree, segs)
        f == IF d = NoNode THEN NoNode ELSE findChild(tree, d, LensesJson)
    IN  IF f # NoNode /\ tree[f].type = "file"
        THEN JSONParse(tree[f].content[1])
        ELSE [ok |-> FALSE, value |-> EmptyObject]

\* The ancestor directories of a file path, root first: for /a/b/c.js the
\* segment lists <<>>, <<a>>, <<a, b>>.
ancestorChain(path) ==
    LET segs == filterNonEmpty(split(path, "/"))
    IN  [n \in 1..Len(segs) |-> SubSeq(segs, 1, n - 1)]

\* A cascade that gives up, with the empty configuration, at a layer that is
\* present and does not parse.
RECURSIVE mergeLayersOrAbort(_, _, _)
mergeLayersOrAbort(acc, tree, chain) ==
    IF chain = <<>> THEN acc
    ELSE LET layer == layerOf(tree, Head(chain))
             d == findDirectory(tree, Head(chain))
             present == d # NoNode /\ findChild(tree, d, LensesJson) # NoNode
         IN  IF present /\ ~layer.ok THEN EmptyObject
             ELSE mergeLayersOrAbort(IF layer.ok THEN deepMerge(acc, layer.value) ELSE acc,
                                     tree, Tail(chain))

RECURSIVE mergeLayers(_, _, _)
mergeLayers(acc, tree, chain) ==
    IF chain = <<>> THEN acc
    ELSE LET layer == layerOf(tree, Head(chain))
         IN  mergeLayers(IF layer.ok THEN deepMerge(acc, layer.value) ELSE acc,
                         tree, Tail(chain))

\* A resolver that answers null, not the empty object, when no layer was merged.
loadConfigOrNull(path, tree) ==
    LET merged == mergeLayers(EmptyObject, tree, ancestorChain(path))
    IN  IF merged = EmptyObject THEN Leaf("null") ELSE merged

loadConfigFromVirtualFS(path, tree) == mergeLayers(EmptyObject, tree, ancestorChain(path))

-----------------------------------------------------------------------------
(* SpecConfig: loadConfigFromVirtualFS on trees with a lenses.json, or    *)
(* none, in each directory                                                 *)

Absent == "absent"

\* The children of a directory of the configuration tree: its lenses.json
\* first when it has one.
WithLayer(layerIdx, text, others) == IF text = Absent THEN others ELSE <<layerIdx>> \o others

ConfigFile(name, dir, text) ==
    StaticFile(name, dir,
               <<"/">> \o (IF dir = <<>> THEN <<>> ELSE dir \o <<"/">>) \o name,
               UNDEF, <<text>>)

\* / { lenses.json?, d/ { lenses.json?, e/ { lenses.json?, f }, g }, h/ { lenses.json?, i }, k }
\* A directory without lenses.json keeps the node in the heap, out of its children.
ConfigTreeOf(t) ==
    << StaticDir(<<"r">>, <<>>, <<"/">>, WithLayer(2, t[1], <<3, 9, 12>>)),
       ConfigFile(LensesJson, <<>>, t[1]),
       StaticDir(<<"d">>, <<>>, <<"/","d">>, WithLayer(4, t[2], <<5, 8>>)),
       ConfigFile(LensesJson, <<"d">>, t[2]),
       StaticDir(<<"e">>, <<"d">>, <<"/","d","/","e">>, WithLayer(6, t[3], <<7>>)),
       ConfigFile(LensesJson, <<"d","/","e">>, t[3]),
       ConfigFile(<<"f">>, <<"d","/","e">>, "x"),
       ConfigFile(<<"g">>, <<"d">>, "x"),
       StaticDir(<<"h">>, <<>>, <<"/","h">>, WithLayer(10, t[4], <<11>>)),
       ConfigFile(LensesJson, <<"h">>, t[4]),
       ConfigFile(<<"i">>, <<"h">>, "x"),
       ConfigFile(<<"k">>, <<>>, "x") >>

ConfigTrees == { ConfigTreeOf(t) : t \in [1..4 -> LayerTexts \cup {Absent}] }

ConfigPaths ==
    { <<"/","d","/","e","/","f">>, <<"/","d","/","g">>, <<"/","h","/","i">>, <<"/","k">> }

InitConfig ==
    /\ virtualFS = NULL
    /\ githubData = <<>>
    /\ filterPath = <<>>
    /\ pc = "ready"
    /\ lookup = NoLookup
    /\ configTree \in ConfigTrees
    /\ configPath \in ConfigPaths
    /\ config = EmptyObject
    /\ OthersInit

\* const config = await loadConfigFromVirtualFS(path, testFS)
LoadConfig ==
    /\ pc = "ready"
    /\ config' = loadConfigFromVirtualFS(configPath, configTree)
    /\ pc' = "resolved"
    /\ UNCHANGED <<virtualFS, githubData, filterPath, lookup, configTree, configPath, appState, uiState>>

NextConfig == LoadConfig

SpecConfig == InitConfig /\ [][NextConfig]_vars

-----------------------------------------------------------------------------
(* Properties of the built tree *)

\* The tree below a node as a value: what the node is, where it says it is,
\* and its children in order.
RECURSIVE Shape(_, _)
Shape(nodes, i) ==
    [type |-> nodes[i].type, name |-> nodes[i].name, path |-> nodes[i].path,
     children |-> IF nodes[i].children = NoChildren THEN <<>>
                  ELSE [k \in DOMAIN nodes[i].children |-> Shape(nodes, nodes[i].children[k])]]

PathSet(nodes) == { nodes[i].path : i \in DOMAIN nodes }

Reordered(l, p) == [i \in DOMAIN l |-> l[p[i]]]

\* Lower-cased names compared character by character, a prefix first.
RECURSIVE CaseInsensitiveLeq(_, _)
CaseInsensitiveLeq(a, b) ==
    IF a = <<>> THEN TRUE
    ELSE IF b = <<>> THEN FALSE
    ELSE IF CharToLower(Head(a)) = CharToLower(Head(b))
    THEN CaseInsensitiveLeq(Tail(a), Tail(b))
    ELSE CollationRank(Head(a)) < CollationRank(Head(b))

\* C1: getFile(f.path) returns the file node f itself, for every file node f
\* of a tree built by githubTreeToVirtualFS and installed as the current tree.
PathRoundTrip == pc = "looked" => (lookup.node = lookup.of /\ lookup.plain = lookup.of)

\* The part of C1 the code keeps: the round trip under an empty filterPath.
PathRoundTripEmptyFilter ==
    (pc = "looked" /\ filterPath = <<>>) =>
        (lookup.node = lookup.of /\ lookup.plain = lookup.of)

ChildrenSorted ==
    pc = "loaded" =>
        \A d \in DirectoryNodes(virtualFS) :
            LET kids == virtualFS[d].children
            IN  \A i, j \in DOMAIN kids :
                    i < j =>
                        /\ ~(virtualFS[kids[i]].type = "file"
                             /\ virtualFS[kids[j]].type = "directory")
                        /\ (virtualFS[kids[i]].type = virtualFS[kids[j]].type
                            => CaseInsensitiveLeq(virtualFS[kids[i]].name,
                                                  virtualFS[kids[j]].name))

\* A directory built from a listing whose order is not the sorted one, holding
\* a directory after which come files whose names differ in case.
ChildrenSortedWitness ==
    /\ pc = "loaded"
    /\ \E d \in DirectoryNodes(virtualFS) :
          LET kids == virtualFS[d].children
          IN  /\ Len(kids) = 3
              /\ virtualFS[kids[1]].type = "directory"
              /\ virtualFS[kids[2]].type = "file"
              /\ virtualFS[kids[2]].name = <<"a","B">>
              /\ virtualFS[kids[3]].name = <<"B">>
    /\ githubData[1].path = <<"B">>

\* C4: no directory of a built tree has two children with the same name.
NoDuplicateSiblings ==
    pc = "loaded" =>
        \A d \in DirectoryNodes(virtualFS) :
            LET kids == virtualFS[d].children
            IN  \A i, j \in DOMAIN kids :
                    i # j => virtualFS[kids[i]].name # virtualFS[kids[j]].name

HundredKiB == 102400

\* The entry is a file node of the built tree: the node that keeps its path.
Appears(item) ==
    \E n \in FileNodes(virtualFS) : virtualFS[n].githubPath = item.path

\* A blob whose path does not end with a binary extension, whatever the case
\* of its letters, and whose size is at most 100 KiB.
Admitted(item) ==
    /\ item.type = "blob"
    /\ ~\E i \in 1..Len(binaryExtensions) :
           LET ext == binaryExtensions[i]
               n == Len(item.path) - Len(ext)
           IN  /\ n >= 0
               /\ \A k \in 1..Len(ext) : CharToLower(item.path[n + k]) = ext[k]
    /\ item.size <= HundredKiB

\* The entry lies below the path of the URL: its path starts with that path
\* and goes on with something other than a lone slash.
InScope(item) ==
    \/ filterPath = <<>>
    \/ /\ Len(item.path) > Len(filterPath)
       /\ SubSeq(item.path, 1, Len(filterPath)) = filterPath
       /\ SubSeq(item.path, Len(filterPath) + 1, Len(item.path)) # <<"/">>

\* C12 as stated: an entry of the listing is a file node of the built tree
\* exactly when it is a blob without a binary extension of at most 100 KiB.
AdmittedExactly ==
    pc = "loaded" =>
        \A i \in DOMAIN githubData : Appears(githubData[i]) <=> Admitted(githubData[i])

\* C12: an entry of the listing that lies below the path of the URL is a file
\* node of the built tree exactly when it is a blob without a binary extension
\* of at most 100 KiB; an entry outside that path, and an entry of more than
\* 100 KiB, is never one.
AdmittedExactlyInScope ==
    pc = "loaded" =>
        \A i \in DOMAIN githubData :
            LET item == githubData[i]
            IN  /\ Appears(item) <=> (InScope(item) /\ Admitted(item))
                /\ item.size > HundredKiB => ~Appears(item)

\* A blob of exactly 100 KiB is in the tree; a larger one, a binary one with
\* upper-case letters and an entry outside the path of the URL are not.
AdmittedWitness ==
    /\ pc = "loaded"
    /\ \E i \in DOMAIN githubData :
          githubData[i].size = HundredKiB /\ Appears(githubData[i])
    /\ \E i \in DOMAIN githubData :
          githubData[i].size > HundredKiB /\ ~Appears(githubData[i])
    /\ \E i \in DOMAIN githubData :
          githubData[i].path = <<"B",".","G","z">> /\ ~Appears(githubData[i])

-----------------------------------------------------------------------------
(* Properties of the current tree and of getFile *)

\* C5: every node of the current tree carries a root back-reference, the
\* same on all nodes, whichever loader installed the tree.
RootBackReference ==
    virtualFS # NULL =>
        \A i \in DOMAIN virtualFS :
            virtualFS[i].root # UNDEF /\ virtualFS[i].root = virtualFS[1].root

\* The children of the nodes of S that are named part.
NamedChildren(nodes, S, part) ==
    { c \in DOMAIN nodes :
        \E n \in S : /\ nodes[n].children # NoChildren
                     /\ \E k \in DOMAIN nodes[n].children : nodes[n].children[k] = c
                     /\ nodes[c].name = part }

\* The nodes the segments lead to from the nodes of S, each by its name.
RECURSIVE ReachFrom(_, _, _)
ReachFrom(nodes, S, segs) ==
    IF segs = <<>> THEN S
    ELSE ReachFrom(nodes, NamedChildren(nodes, S, Head(segs)), Tail(segs))

\* Some prefix of the segments names more than one node.
RECURSIVE Ambiguous(_, _, _)
Ambiguous(nodes, S, segs) ==
    IF Cardinality(S) > 1 THEN TRUE
    ELSE IF segs = <<>> THEN FALSE
    ELSE Ambiguous(nodes, NamedChildren(nodes, S, Head(segs)), Tail(segs))

Segments(path) == filterNonEmpty(split(path, "/"))

ResolvedFiles(nodes, path) ==
    IF nodes = NULL THEN {}
    ELSE { n \in ReachFrom(nodes, {1}, Segments(path)) : nodes[n].type = "file" }

\* C6: getFile(path) returns a node only if the non-empty segments of path
\* lead by name from the root to that node and it is a file, returns the file
\* a path names, returns null otherwise (also with no tree), and a leading
\* slash on path changes nothing.  Both versions of getFile.
GetFileContract ==
    LET files == ResolvedFiles(virtualFS, lookup.path)
        clear == virtualFS # NULL /\ ~Ambiguous(virtualFS, {1}, Segments(lookup.path))
    IN  /\ \A r \in {lookup.node, lookup.plain} :
              /\ r # NoNode => r \in files
              /\ (clear /\ files # {} /\ lookup.path # <<>>) => r \in files
              /\ virtualFS = NULL => r = NoNode
        /\ getFile(virtualFS, <<"/">> \o lookup.path) = lookup.node
        /\ getFilePlain(virtualFS, <<"/">> \o lookup.path) = lookup.plain

\* A path of two segments without a leading slash was looked up and found.
GetFileFound ==
    /\ lookup.node # NoNode
    /\ Len(Segments(lookup.path)) >= 2
    /\ Head(lookup.path) # "/"
    /\ virtualFS[lookup.node].type = "file"

-----------------------------------------------------------------------------
(* Properties of the configuration cascade *)

\* The ancestor directories of configPath, root first, as segment lists.
ChainDirs == LET segs == Segments(configPath) IN [n \in 1..Len(segs) |-> SubSeq(segs, 1, n - 1)]

\* The content of the lenses.json a directory holds, Absent if it holds none:
\* the file is found by its path among the nodes that are somebody's child.
LayerTextAt(dirSegs) ==
    LET q == <<"/">> \o join(Append(dirSegs, LensesJson), "/")
        held == { i \in DOMAIN configTree :
                    /\ configTree[i].path = q
                    /\ \E d \in DOMAIN configTree :
                          /\ configTree[d].children # NoChildren
                          /\ \E c \in DOMAIN configTree[d].children :
                                configTree[d].children[c] = i }
    IN  IF held = {} THEN Absent ELSE configTree[CHOOSE i \in held : TRUE].content[1]

Malformed(text) == text # Absent /\ ~JSONParse(text).ok

\* The positions of the chain whose directory holds a lenses.json that parses.
ValidLayers == { n \in DOMAIN ChainDirs : JSONParse(LayerTextAt(ChainDirs[n])).ok }

LayerAt(n) == JSONParse(LayerTextAt(ChainDirs[n])).value

\* The leaves of a JSON value: [p |-> the keys leading to it, v |-> its text].
RECURSIVE LeavesOf(_, _)
LeavesOf(f, prefix) ==
    UNION { IF f[key].k = "obj"
            THEN LeavesOf(f[key].v, Append(prefix, key))
            ELSE { [p |-> Append(prefix, key), v |-> f[key].v] } : key \in DOMAIN f }

\* One key path is the other or leads to it.
Comparable(p, q) ==
    \/ (Len(p) <= Len(q) /\ SubSeq(q, 1, Len(p)) = p)
    \/ (Len(q) <= Len(p) /\ SubSeq(p, 1, Len(q)) = q)

\* The leaves of the merge of two objects, stated on their leaves: all of the
\* deeper object, and of the ancestor what the deeper object does not touch.
LeafMerge(ancestor, deeper) ==
    deeper \cup { l \in ancestor : \A m \in deeper : ~Comparable(l.p, m.p) }

RECURSIVE ExpectedLeaves(_, _)
ExpectedLeaves(acc, n) ==
    IF n > Len(ChainDirs) THEN acc
    ELSE ExpectedLeaves(IF n \in ValidLayers
                        THEN LeafMerge(acc, LeavesOf(LayerAt(n), <<>>))
                        ELSE acc,
                        n + 1)

DeepMergeCascade ==
    pc = "resolved" => LeavesOf(config, <<>>) = ExpectedLeaves({}, 1)

\* Two layers hold an object at a, and a third replaces it where it is read.
DeepMergeWitness ==
    /\ pc = "resolved"
    /\ ValidLayers = {1, 2}
    /\ "a" \in DOMAIN LayerAt(1) \cap DOMAIN LayerAt(2)
    /\ LayerAt(1)["a"].k = "obj"
    /\ LayerAt(2)["a"].k = "obj"
    /\ LayerAt(1)["a"] # LayerAt(2)["a"]
    /\ config["a"] = Obj([x |-> Leaf("1"),
                          y |-> Obj([p |-> Leaf("true"), q |-> Leaf("true")])])

\* C9: a key that no deeper layer mentions keeps, in the effective
\* configuration, the value the ancestor gave it.
SiblingKeysSurvive ==
    pc = "resolved" =>
        \A n \in ValidLayers :
            \A l \in LeavesOf(LayerAt(n), <<>>) :
                (\A m \in ValidLayers :
                    m > n => \A d \in LeavesOf(LayerAt(m), <<>>) : ~Comparable(l.p, d.p))
                => l \in LeavesOf(config, <<>>)

\* The root sets a and b, the child sets b only: a survives, b is the child's.
SiblingKeysWitness ==
    /\ pc = "resolved"
    /\ ValidLayers = {1, 2}
    /\ LayerAt(1) = [a |-> Leaf("1"), b |-> Leaf("2")]
    /\ LayerAt(2) = [b |-> Leaf("3")]
    /\ config = [a |-> Leaf("1"), b |-> Leaf("3")]

\* The contents of the four lenses.json of the configuration tree.
ConfigTexts ==
    [s \in 1..4 |->
        LET i == <<2, 4, 6, 10>>[s]
        IN  IF \E d \in DOMAIN configTree :
                  /\ configTree[d].children # NoChildren
                  /\ \E c \in DOMAIN configTree[d].children : configTree[d].children[c] = i
            THEN configTree[i].content[1]
            ELSE Absent]

\* The directories of the four lenses.json, as segment lists.
ConfigDirs == << <<>>, << <<"d">> >>, << <<"d">>, <<"e">> >>, << <<"h">> >> >>

InChain(s) == \E n \in DOMAIN ChainDirs : ChainDirs[n] = ConfigDirs[s]

\* C10: a lenses.json that is not valid JSON is skipped: the effective
\* configuration is the one of the same tree without the malformed files,
\* and it does not depend on the lenses.json of a directory that is not an
\* ancestor of the file.
MalformedLayerSkipped ==
    pc = "resolved" =>
        /\ config = loadConfigFromVirtualFS(configPath,
                        ConfigTreeOf([s \in 1..4 |-> IF Malformed(ConfigTexts[s])
                                                     THEN Absent ELSE ConfigTexts[s]]))
        /\ \A s \in 1..4 :
              ~InChain(s) =>
                  \A u \in LayerTexts \cup {Absent} :
                      config = loadConfigFromVirtualFS(configPath,
                                   ConfigTreeOf([ConfigTexts EXCEPT ![s] = u]))

\* The lenses.json of /d is malformed, the root's and /d/e's are valid: the
\* file below keeps both.
MalformedLayerWitness ==
    /\ pc = "resolved"
    /\ Len(ChainDirs) = 3
    /\ Malformed(LayerTextAt(ChainDirs[2]))
    /\ ValidLayers = {1, 3}
    /\ config = [a |-> Leaf("1"), b |-> Leaf("3")]

\* The keys the lenses.json of the model use at the top level.
ConfigKeys == {"a", "b"}

\* C11: the effective configuration is always an object, never null: each of
\* its keys comes from a lenses.json of an ancestor directory that parses,
\* every key of such a layer is in it, and it is the empty object when no
\* ancestor directory holds a lenses.json.
ConfigNeverNull ==
    pc = "resolved" =>
        /\ DOMAIN config \subseteq ConfigKeys
        /\ DOMAIN config = UNION { DOMAIN LayerAt(n) : n \in ValidLayers }
        /\ (\A n \in DOMAIN ChainDirs : LayerTextAt(ChainDirs[n]) = Absent)
               => config = EmptyObject

\* No ancestor of /d/e/f holds a lenses.json, a directory beside the chain
\* holds one: the file resolves to the empty object.
ConfigNeverNullWitness ==
    /\ pc = "resolved"
    /\ Len(ChainDirs) = 3
    /\ \A n \in DOMAIN ChainDirs : LayerTextAt(ChainDirs[n]) = Absent
    /\ LayerTextAt(<< <<"h">> >>) # Absent
    /\ config = EmptyObject

-----------------------------------------------------------------------------
(* Properties of addVirtualFSMetadata *)

\* A lang that is a non-empty string: what !node.lang takes for set.
ExplicitLang(node) == node.type = "file" /\ node.lang \notin {UNDEF, <<>>}

-----------------------------------------------------------------------------
(* Properties of lazy loading *)

\* C14: when the fetch of a file fails because the file is over 1 MiB, the
\* node is still in the tree and its content is still empty once
\* loadFileContent has finished.
OversizedStaysEmpty ==
    [][ \A r \in fetched' \ fetched :
            r.outcome = "too large" =>
                /\ r.file \in FileNodes(virtualFS')
                /\ virtualFS'[r.file].content = <<>>
      ]_vars

\* The number of fetches for a node that are on the network.
Fetching(calls, f) == Cardinality({ k \in DOMAIN calls : calls[k] = f })

\* C16: once a fetch for a node has completed, no call of loadFileContent
\* issues another fetch for that node.
FetchedOnce ==
    [][ \A r \in fetched : Fetching(inflight', r.file) <= Fetching(inflight, r.file) ]_vars

-----------------------------------------------------------------------------
(* Properties of loadFS *)

\* The steps at which loadFS rejects.
LoadFSRejects ==
    \/ LoadFSGitHubFail
    \/ LoadFSStaticFetchFail
    \/ LoadFSStaticJsonFail
    \/ LoadFSStaticThrow

\* C15: when loadFS rejects, the current tree is the one that was current
\* before: a failed load leaves no partial tree behind.
FailedLoadKeepsTree == [][ LoadFSRejects => virtualFS' = virtualFS ]_vars

\* Every directory of the tree has its directories first and each group in
\* the order of the names.
SortedTree(nodes) ==
    \A d \in DirectoryNodes(nodes) :
        \A i, j \in DOMAIN nodes[d].children :
            i < j => compareNodes(nodes[nodes[d].children[i]],
                                  nodes[nodes[d].children[j]]) <= 0

\* The whole tree of a listing: a file node for each entry the filters let
\* through, and every directory sorted.
CompleteGitHubTree(nodes, listing, fp) ==
    /\ nodes # NULL
    /\ Cardinality(FileNodes(nodes)) = Len(selectFiles(listing, fp))
    /\ SortedTree(nodes)

\* The whole tree of a snapshot: its shape, with every node annotated.
CompleteStaticTree(nodes, snapshot) ==
    /\ nodes # NULL
    /\ snapshot # NULL
    /\ Shape(nodes, 1) = Shape(snapshot, 1)
    /\ \A i \in DOMAIN nodes :
          /\ nodes[i].root = <<"/">>
          /\ nodes[i].dir # UNDEF => nodes[i].toCwd # UNDEF

\* C18: the current tree changes only from the complete previous tree to the
\* complete new one: between the awaits of loadFS, where getFile can run, it
\* is never a tree that is built, sorted or annotated in part.
AtomicSwap ==
    [][ virtualFS' # virtualFS =>
          \/ pc = "parsing" /\ CompleteStaticTree(virtualFS', response.value)
          \/ pc = "fetching" /\ CompleteGitHubTree(virtualFS', githubData, filterPath)
      ]_vars

-----------------------------------------------------------------------------
(* Properties of editor updates *)

\* C17: an editor update that runs after a new tree was installed leaves the
\* current tree as it is: it does not put the old tree back and changes no
\* node of the new one.
StaleEditHarmless ==
    [][ (pending.timer /\ ~pending'.timer /\ pending.fs # virtualFS)
            => virtualFS' = virtualFS ]_vars

-----------------------------------------------------------------------------
(* Properties of the fallbacks *)

\* C19: when the file path of the URL does not resolve in the current tree,
\* at startup or on a hash change, no error is raised, and the selected file
\* is the similar file if there is one, else some file of the tree if it has
\* one, else the selection is left as it was.
FallbackPolicy ==
    [][ ((InitializeApp \/ HandleHashChange)
         /\ request'.filePath # <<>>
         /\ getFile(virtualFS', request'.filePath) = NoNode)
        => LET similar == findSimilarFile(virtualFS', request'.filePath)
               files == FileNodes(virtualFS')
           IN  /\ appError' = appError
               /\ IF similar # NoNode THEN currentFile' = virtualFS'[similar]
                  ELSE IF files # {} THEN \E f \in files : currentFile' = virtualFS'[f]
                  ELSE currentFile' = currentFile
      ]_vars

\* The file nodes at and below a node, as the set the children lead to.
RECURSIVE Below(_, _)
Below(nodes, S) ==
    LET kids == { c \in DOMAIN nodes :
                    \E n \in S : /\ nodes[n].children # NoChildren
                                 /\ \E k \in DOMAIN nodes[n].children :
                                       nodes[n].children[k] = c }
    IN  IF kids \subseteq S THEN S ELSE Below(nodes, S \cup kids)

FilesBelow(nodes, from) ==
    IF from = NoNode THEN {}
    ELSE { n \in Below(nodes, {from}) : nodes[n].type = "file" }

\* C20: getRandomFile returns null exactly when the tree it is given (the
\* current tree when it is given none) holds no file node or there is no
\* tree, and otherwise a file node of that tree.  Both versions.
RandomFileContract ==
    randomFile.dir.kind # "none" =>
        /\ LET files == FilesBelow(randomFile.fs, randomRoot(randomFile.fs, randomFile.dir))
           IN  /\ randomFile.node = NoNode <=> files = {}
               /\ randomFile.node # NoNode => randomFile.node \in files
        /\ LET files == FilesBelow(randomFile.fs, randomRootPlain(randomFile.fs, randomFile.dir))
           IN  /\ randomFile.plain = NoNode <=> files = {}
               /\ randomFile.plain # NoNode => randomFile.plain \in files

\* getRandomFile() on a tree that holds directories and several files
\* returned a file that is not in the root directory.
RandomFileWitness ==
    /\ randomFile.dir.kind = "default"
    /\ randomFile.node # NoNode
    /\ Cardinality(FileNodes(randomFile.fs)) >= 2
    /\ Cardinality(DirectoryNodes(randomFile.fs)) >= 2
    /\ randomFile.fs[randomFile.node].type = "file"
    /\ \A k \in DOMAIN randomFile.fs[1].children :
          randomFile.fs[1].children[k] # randomFile.node

-----------------------------------------------------------------------------
(* Properties of the operations on files *)

\* What the operations are to leave alone: the path, name and dir of every node and
\* the children of every directory, in their order.
Frame(nodes) ==
    [i \in DOMAIN nodes |->
        [path |-> nodes[i].path, name |-> nodes[i].name, dir |-> nodes[i].dir,
         children |-> nodes[i].children]]

\* C21: updateFile, loadFileContent, cacheLensPreferences, clearCachedLenses,
\* updateFileContent and resetFileContent leave the path, name and dir of
\* every node, the set of the paths and the order of the children of every
\* directory as they were.
MutationsKeepShape ==
    [][ /\ Frame(virtualFS') = Frame(virtualFS)
        /\ PathSet(virtualFS') = PathSet(virtualFS) ]_vars

\* A directory below the root was given content by updateFileContent, and a
\* file has a study cache, and the tree still has a file below a directory.
MutationsWitness ==
    /\ \E d \in DirectoryNodes(virtualFS) :
          /\ d # 1
          /\ "modifications" \in DOMAIN virtualFS[d]
          /\ virtualFS[d].children # <<>>
    /\ \E f \in FileNodes(virtualFS) : "studyCache" \in DOMAIN virtualFS[f]

-----------------------------------------------------------------------------
(* Properties of the file browser *)

\* The nodes above a node, the root of the tree left out.
Ancestors(nodes, i) ==
    { a \in DOMAIN nodes \ {1} : a # i /\ i \in Below(nodes, {a}) }

\* C22: the file browser renders no node named lenses.json or with a name
\* that starts with a dot, and no node below a directory with such a name,
\* whatever directories are open.
BrowserHides ==
    \A i \in renderBrowser(virtualFS, expandedDirs) :
        \A n \in {i} \cup Ancestors(virtualFS, i) :
            /\ virtualFS[n].name # LensesJson
            /\ Head(virtualFS[n].name) # "."

\* A directory two levels down is open and rendered with a file of it, and
\* it holds a hidden file as well; the tree has a hidden directory with a
\* file in it.
BrowserWitness ==
    /\ \E d \in renderBrowser(virtualFS, expandedDirs) :
          /\ virtualFS[d].type = "directory"
          /\ Ancestors(virtualFS, d) # {}
          /\ virtualFS[d].path \in expandedDirs
          /\ \E k \in DOMAIN virtualFS[d].children :
                virtualFS[d].children[k] \in renderBrowser(virtualFS, expandedDirs)
          /\ \E k \in DOMAIN virtualFS[d].children :
                virtualFS[virtualFS[d].children[k]].name = LensesJson
                   \/ Head(virtualFS[virtualFS[d].children[k]].name) = "."
    /\ \E h \in DirectoryNodes(virtualFS) :
          /\ Head(virtualFS[h].name) = "."
          /\ virtualFS[h].children # <<>>

-----------------------------------------------------------------------------
(* Properties of the path prefix *)

\* The entry lies inside the directory the path of the URL names.
InsideFilterDirectory(item) ==
    /\ Len(item.path) > Len(filterPath) + 1
    /\ SubSeq(item.path, 1, Len(filterPath) + 1) = filterPath \o <<"/">>

\* The path of such an entry from that directory on.
RelativeToFilter(item) == SubSeq(item.path, Len(filterPath) + 2, Len(item.path))

\* C23: with a path in the URL, the file nodes of the built tree are exactly
\* the admitted entries inside the directory of that path, each where its
\* path from that directory on leads to; the entry of the path itself and
\* the entries of a sibling whose name starts with it make no node.
ScopedToDirectory ==
    (pc = "loaded" /\ filterPath # <<>>) =>
        /\ \A i \in DOMAIN githubData :
              LET item == githubData[i]
              IN  Appears(item) <=> (Admitted(item) /\ InsideFilterDirectory(item))
        /\ \A n \in FileNodes(virtualFS) :
              \E i \in DOMAIN githubData :
                 /\ InsideFilterDirectory(githubData[i])
                 /\ virtualFS[n].githubPath = githubData[i].path
                 /\ walk(virtualFS, 1, split(RelativeToFilter(githubData[i]), "/")) = n

-----------------------------------------------------------------------------
(* Properties of a failed fetch *)

\* C24: when the fetch of loadFileContent is over, failed or not, the
\* promise is resolved with a string, which after a failure is the comment
\* with the error; the other nodes are as they were, and so are path, name,
\* dir and children of every node.
FetchErrorIsolated ==
    [][ \A k \in DOMAIN inflight :
            inflight' = SubSeq(inflight, 1, k - 1) \o SubSeq(inflight, k + 1, Len(inflight))
            => \E c \in fetched' :
                  /\ c.file = inflight[k]
                  /\ ~c.rejected
                  /\ c.value # UNDEF
                  /\ c.outcome # "ok" => c.value = ErrorContent(c.outcome)
                  /\ DOMAIN virtualFS' = DOMAIN virtualFS
                  /\ \A n \in DOMAIN virtualFS \ {c.file} : virtualFS'[n] = virtualFS[n]
                  /\ Frame(virtualFS') = Frame(virtualFS) ]_vars

\* The fetch of one file failed and its promise was resolved with the
\* comment, and another file of the tree holds the content that was fetched
\* for it.
FetchErrorWitness ==
    \E c, d \in fetched :
        /\ c.file # d.file
        /\ c.outcome # "ok"
        /\ ~c.rejected
        /\ c.value = ErrorContent(c.outcome)
        /\ d.outcome = "ok"
        /\ virtualFS[d.file].content = <<"x">>

-----------------------------------------------------------------------------
(* Properties of the current file *)

\* RepoLoader installed a tree in this step.
RepoLoaderInstalls ==
    HandleLoadRepoStatic \/ LoadFSGitHubInstall \/ HandleFileUpload \/ HandleLoadGist

\* C25: after a load through RepoLoader the current file is a file node of
\* the tree that was installed, or no file.
CurrentFileOfNewTree ==
    [][ RepoLoaderInstalls
        => \/ currentFile' = NoFile
           \/ \E f \in FileNodes(virtualFS') : virtualFS'[f] = currentFile' ]_vars

\* C26: when resetFileContent follows one or more updateFileContent calls on
\* a file (nothing else having changed its content in between), the file's
\* content is again what it was before the first of them, and its
\* modifications.hasChanges is false.
ResetRestores ==
    [][ \A i \in (DOMAIN beforeUpdate) \ (DOMAIN beforeUpdate') :
            (i \in FileNodes(virtualFS) /\ beforeUpdate[i].now = field(virtualFS[i], "content"))
            => /\ field(virtualFS'[i], "content") = beforeUpdate[i].before
               /\ virtualFS'[i].modifications.hasChanges = FALSE ]_vars

\* C27: after any sequence of selections through setCurrentFile the history
\* holds at most 50 entries, no two of them have the same path, and its first
\* entry is the file selected last.
HistoryContract ==
    /\ Len(fileHistory) <= 50
    /\ \A j, k \in DOMAIN fileHistory : j # k => fileHistory[j].path # fileHistory[k].path
    /\ lastSelected # NoFile => (fileHistory # <<>> /\ fileHistory[1] = lastSelected)

\* Every file of the walk was selected, more of them than the history keeps,
\* and the first one, edited since, was selected again: it heads a full
\* history.
HistoryWitness ==
    /\ Len(fileHistory) = 50
    /\ lastOpened(fileHistory) = MaxFiles
    /\ fileHistory[1] = Edited(HistoryFile(1))
    /\ lastSelected = Edited(HistoryFile(1))

\* C28: after every call of startSession, recordResponse, navigateToCard or
\* endSession, an active session is a non-empty list of cards and
\* currentCardIndex is an index of it; a startSession that gets no card does
\* not make the session active; a recordResponse on the last card of an
\* active session ends it.
SessionContract ==
    [][ /\ isSessionActive' =>
              /\ currentSession' # NoSession
              /\ Len(currentSession') > 0
              /\ 0 <= currentCardIndex' /\ currentCardIndex' < Len(currentSession')
        /\ (call'.name = "startSession" /\ call'.arg = <<>> /\ ~isSessionActive)
              => ~isSessionActive'
        /\ (/\ call'.name = "recordResponse"
            /\ isSessionActive
            /\ currentCardIndex = Len(currentSession) - 1)
              => ~isSessionActive' /\ currentSession' = NoSession ]_vars

\* A session of several cards is at its last card after a navigateToCard
\* and a response was recorded for its first card.
SessionWitness ==
    /\ isSessionActive
    /\ Len(currentSession) = 3
    /\ currentCardIndex = 2
    /\ call.name = "navigateToCard"
    /\ Len(recorded) = 1

\* C29: each answer given on a flashcard goes to the Leitner manager once,
\* for the card of the file displayed and with the value of the answer,
\* whether a study session is active or not.
AnswerRecorded ==
    [][ answers' # answers
        => recorded' = Append(recorded, answers'[Len(answers')]) ]_vars

\* C30: at most one timeout of the debounced function is pending at any
\* time; in every burst of calls, each made less than the delay after the
\* one before, the callback runs once, after the last call of the burst and
\* with the arguments of that call.
DebounceContract ==
    /\ Cardinality(timers) <= 1
    /\ \A k \in DOMAIN bursts :
          /\ Len(bursts[k].runs) <= 1
          /\ \A r \in DOMAIN bursts[k].runs :
                /\ bursts[k].runs[r].args = bursts[k].last.args
                /\ bursts[k].runs[r].at >= bursts[k].last.at
          /\ (k < Len(bursts) \/ clock > bursts[k].last.at + delay)
                => Len(bursts[k].runs) = 1

\* A burst of two calls, the last of them with 'y', ended with its run of
\* the callback, and a later call began another burst whose timeout is set.
DebounceWitness ==
    /\ Len(bursts) = 2
    /\ bursts[1].calls = 2
    /\ bursts[1].last.args = <<"y">>
    /\ Len(bursts[1].runs) = 1
    /\ Cardinality(timers) = 1

=============================================================================
